---------------------------- MODULE Spec2Model ----------------------------
(***************************************************************************)
(* DriftGuard: the drift controller (backend/internal/controller) and the  *)
(* drift_records upsert of the database layer (backend/internal/database). *)
(*                                                                         *)
(* Threads of control: API callers (Start, Stop, TriggerManualAnalysis)    *)
(* and the goroutines spawned by Start (runDriftAnalysis).  A pass         *)
(* (performDriftAnalysis) walks the (namespace, kind) pairs; for every     *)
(* live resource it reads the prior record, decides the transition twice   *)
(* (handleDriftStateTransition, then SaveDriftRecord after a second read)  *)
(* and upserts.  Every store access is one atomic step; nothing in the     *)
(* code serialises the steps of different threads.  A trigger thread makes *)
(* one call.  The environment changes, creates and deletes live objects,   *)
(* lists objects without metadata or name, and makes the store and the     *)
(* cluster API fail and recover; each of these has its own specification.  *)
(* The lookup of the desired manifest is one step of the evaluation but    *)
(* in GitAccessSpec, where it is two, for what happens to the working tree *)
(* meanwhile.                                                              *)
(*                                                                         *)
(* Three components are also modelled on their own, each with its own      *)
(* variables and specification: the diff engine on structured manifests    *)
(* (backend/internal/detector, DetectorSpec), the lifecycle manager        *)
(* (backend/internal/lifecycle, ManagerSpec) and the health service        *)
(* (HealthSpec).  While one of them runs the others stay idle.             *)
(***************************************************************************)
EXTENDS Integers, Sequences, FiniteSets, TLC

(* ------------------------------ bounds -------------------------------- *)

\* The clock is the number of passes begun so far; no pass begins at MaxTime.
MaxTime == 4

(* ----------------------------- universe ------------------------------- *)

\* Threads that call Start and Stop; the goroutines Start spawns for
\* runDriftAnalysis; the thread of an on-demand trigger.
Callers == {"c1", "c2"}
Loops == {"g1", "g2"}
Triggers == {"m1"}
Threads == Callers \cup Loops \cup Triggers
\* the threads that run passes
Runners == Loops \cup Triggers

\* resource ids "<Kind>:<Namespace>:<Name>", controller.go:182
Resources == {"Deployment:ns:app", "ConfigMap:ns:defaults"}

\* The (namespace, kind) pairs of a pass in iteration order: the one
\* configured namespace and the configured kinds, and for each pair the
\* resource ids of the objects the cluster may hold.
Namespace == "ns"
Kinds == <<"Deployment", "ConfigMap">>
PairResources == << <<"Deployment:ns:app">>, <<"ConfigMap:ns:defaults">> >>

\* metadata.name of the objects
NameOf ==
    [r \in Resources |-> IF r = "Deployment:ns:app" THEN "app" ELSE "defaults"]

\* fmt.Sprintf("%s:%s:%s", kind, namespace, name), controller.go:182
ResourceID(kind, namespace, name) == kind \o ":" \o namespace \o ":" \o name

\* The resource ids a record can be stored under: those of the objects, and
\* the one an object without a name would get.
RecordIDs == Resources \cup {ResourceID("ConfigMap", Namespace, "")}

\* What may be wrong with the stray ConfigMap object of the cluster.
Shapes == {"no metadata", "no name"}

\* Manifests are flattened to their leaf fields.
Fields == <<"spec.replicas", "spec.image">>
Manifests ==
    { [f \in {Fields[i] : i \in 1..Len(Fields)} |->
          IF f = "spec.replicas" THEN v[1] ELSE v[2]] :
      v \in {<<2, "nginx:1.23">>, <<3, "nginx:1.23">>, <<3, "nginx:1.24">>} }

FieldSet == {Fields[i] : i \in 1..Len(Fields)}
\* GetManifestForResource returned nil (no document, or an error)
NoManifest == [f \in FieldSet |-> IF f = "spec.replicas" THEN -1 ELSE "nil"]
\* The Git tree: a document for the Deployment, none for the ConfigMap.
GitTree ==
    [r \in Resources |->
        IF r = "Deployment:ns:app"
        THEN [f \in FieldSet |->
                 IF f = "spec.replicas" THEN 2 ELSE "nginx:1.23"]
        ELSE NoManifest]

\* A live manifest equal to the Deployment's document in Git.
InSync == [f \in FieldSet |-> IF f = "spec.replicas" THEN 2 ELSE "nginx:1.23"]

\* The manifests a live resource takes: the Deployment's vary.
LiveManifests(r) == IF r = "Deployment:ns:app" THEN Manifests ELSE {InSync}

\* a nil *time.Time; an absent or null timestamp of a document
Null == 0
ResolutionMessage == "Drift resolved. Configuration now matches Git."
\* GetDriftRecord returned nil: no document for the resource_id.  As a
\* document it is the empty one an upsert inserts into.
NoRecord ==
    [id |-> Null, created_at |-> Null,
     drift_detected |-> FALSE, drift_status |-> "nil", drift_details |-> <<>>,
     desired_state |-> NoManifest, live_state |-> NoManifest,
     last_known_good_hash |-> "",
     first_detected |-> Null, resolved_at |-> Null, resolution_message |-> ""]

VARIABLES
    store,       \* drift_records: resource_id -> the document FindOne and
                 \* UpdateOne match, NoRecord when there is none
    copies,      \* drift_records: resource_id -> number of its documents
    live,        \* the cluster: resource_id -> live manifest, NoManifest
                 \* when the cluster has no such object
    stray,       \* the cluster: the shape of its malformed ConfigMap object,
                 \* "none" when it has none
    dbDown,      \* the database does not answer
    apiDown,     \* the Kubernetes API does not answer
    repo,        \* the Git working tree at repoPath: "empty", "cloned", "removed"
    clock,       \* time.Now()
    isRunning,   \* DriftController.isRunning
    stopCh,      \* DriftController.stopCh: "open" or "closed"
    ctxDone,     \* the context given to Start has been cancelled
    panicked,    \* the process died of a runtime panic
    pc,          \* per thread: where it is
    pairIdx,     \* per thread: index of the (namespace, kind) pair of its pass
    resIdx,      \* per thread: index of the resource within liveResources
    listed,      \* per thread: liveResources, the result of ListResources
    existing,    \* per thread: existingRecord of analyzeSingleResource
    getErr,      \* per thread: err of its c.db.GetDriftRecord
    logged,      \* per thread: the transition events its evaluation under
                 \* way has logged
    dbExisting,  \* per thread: existingRecord of SaveDriftRecord
    rec,         \* per thread: driftRecord under construction
    passStart,   \* per thread: clock when its pass began
    pullErr      \* per thread: err of gitClient.Pull() is not nil

\* The diff engine taken alone (detector.DriftDetector): one call of
\* DetectDrift, its arguments and what it returned.
VARIABLES
    liveState,    \* DetectDrift: its argument liveState
    desiredState, \* DetectDrift: its argument desiredState
    rangeOrder,   \* the order in which this run's range loops visit keys
    driftResult   \* DetectDrift: the result returned, NoResult before

detectorVars == <<liveState, desiredState, rangeOrder, driftResult>>

\* The lifecycle manager taken alone (lifecycle.LifecycleManager) with the
\* components main registers, called by the main goroutine and, for the
\* overlap of Start and Stop, by one more.
VARIABLES
    lmStatus,     \* LifecycleManager.status
    lmOp,         \* the call under way: "none", "start" or "stop"
    lmIdx,        \* the index of the loop of the call under way
    lmCalls,      \* the component calls made by the call under way or, when
                  \* none is, by the last one
    lmDone,       \* the last call that returned and whether with an error
    compUp,       \* per component: started and not stopped since
    unhealthy,    \* the components whose Health returns an error
    lmHealth,     \* what the last call of Health returned, "none" before
    stopCall,     \* the Stop another goroutine calls during a Start: "none",
                  \* "running" or "returned"
    stopIdx       \* the index of the loop of that Stop

managerVars == <<lmStatus, lmOp, lmIdx, lmCalls, lmDone, compUp, unhealthy,
                 lmHealth, stopCall, stopIdx>>

\* The health service taken alone (health.HealthService).
VARIABLES
    hsComponents, \* HealthService.components: the names registered
    checkStatus,  \* per checker: the status its Check returns
    hsOverall,    \* what the last GetOverallStatus returned; "none" before,
                  \* and after a registration or a change of a checker
    hsResponse    \* the last response of ServeHTTP, likewise

healthVars == <<hsComponents, checkStatus, hsOverall, hsResponse>>

\* The state of the components that are modelled one at a time; the
\* controller leaves it alone.
unitVars == <<detectorVars, managerVars, healthVars>>

vars == <<store, copies, live, stray, dbDown, apiDown, repo, clock, isRunning,
          stopCh, ctxDone, panicked, pc, pairIdx, resIdx, listed, existing,
          getErr, logged, dbExisting, rec, passStart, pullErr, unitVars>>

\* a nil interface value
Nil == [type |-> "nil"]

\* DetectDrift has not returned
NoResult == [Detected |-> FALSE, Changes |-> <<>>, returned |-> FALSE]

\* No call of the diff engine taken alone is under way.
DetectorIdle ==
    /\ liveState = Nil
    /\ desiredState = Nil
    /\ rangeOrder = <<>>
    /\ driftResult = NoResult

\* The components in the order main registers them, main.go:111-124.
Components == <<"database", "drift-controller">>
ComponentSet == {Components[i] : i \in 1..Len(Components)}

\* NewLifecycleManager, lifecycle.go:41-47, and the registrations of main.
ManagerIdle ==
    /\ lmStatus = "stopped"
    /\ lmOp = "none"
    /\ lmIdx = 0
    /\ lmCalls = <<>>
    /\ lmDone = [op |-> "none", err |-> FALSE]
    /\ compUp = [c \in ComponentSet |-> FALSE]
    /\ unhealthy = {}
    /\ lmHealth = "none"
    /\ stopCall = "none"
    /\ stopIdx = 0

\* The checkers that may be registered with the health service.
Checkers == {"checker-1", "checker-2"}
NoResponse == [readiness |-> FALSE, status |-> "none", code |-> 0]

\* NewHealthService, health (part_005:46-51)
HealthIdle ==
    /\ hsComponents = {}
    /\ checkStatus = [c \in Checkers |-> "healthy"]
    /\ hsOverall = "none"
    /\ hsResponse = NoResponse

UnitIdle == DetectorIdle /\ ManagerIdle /\ HealthIdle

(* --------------------------- diff engine ------------------------------ *)

\* createDriftChange(field, from, to, ...): detector.go:128
createDriftChange(field, from, to) == [Field |-> field, From |-> from, To |-> to]

\* The orders in which "for key, desiredValue := range desiredMap"
\* (detector.go:70) may visit the keys: Go leaves the iteration order of a
\* map unspecified, and the runtime randomises it.
KeyOrders ==
    {o \in [1..Len(Fields) -> FieldSet] : \A f \in FieldSet : \E i \in 1..Len(Fields) : o[i] = f}

RECURSIVE deepCompareFrom(_, _, _, _)
\* deepCompare over the desired manifest's leaf fields, visited in the given
\* order, from the i-th on.
deepCompareFrom(i, order, liveM, desired) ==
    IF i > Len(order) THEN <<>>
    ELSE LET f == order[i]
             rest == deepCompareFrom(i + 1, order, liveM, desired)
         IN  IF liveM[f] # desired[f]
             THEN <<createDriftChange(f, desired[f], liveM[f])>> \o rest
             ELSE rest

\* DetectDrift: detector.go:23
DetectDrift(order, liveM, desired) ==
    LET changes == deepCompareFrom(1, order, liveM, desired)
    IN  [Detected |-> Len(changes) > 0, Changes |-> changes]

\* analyzeSingleResource, lines 185-205, with a diff that is run on a nil
\* desired state as well.
DriftResult_AlwaysDetect(order, liveM, desired) ==
    DetectDrift(order, liveM, desired)

\* analyzeSingleResource, lines 185-205: the diff outcome of one resource.
DriftResult(order, liveM, desired) ==
    IF desired # NoManifest
    THEN DetectDrift(order, liveM, desired)
    ELSE [Detected |-> FALSE, Changes |-> <<>>]

(* -------------------------- state machine ----------------------------- *)

\* The driftRecord built at controller.go:215: a new ID and creation time,
\* no status, no timestamps.  (LastUpdated, the time of the write, is left
\* out of the records.)
NewDriftRecord(id, now, result, desired, liveM) ==
    [ID |-> id,
     CreatedAt |-> now,
     DriftDetected |-> result.Detected,
     DriftDetails |-> result.Changes,
     DesiredState |-> desired,
     LiveState |-> liveM,
     DriftStatus |-> "",
     LastKnownGoodHash |-> "",
     FirstDetected |-> Null,
     ResolvedAt |-> Null,
     ResolutionMessage |-> ""]

\* the decimal digits of a small whole number, as fmt and encoding/json
\* print it
Digits == <<"0", "1", "2", "3", "4", "5", "6", "7", "8", "9">>
Itoa(i) == Digits[i + 1]

\* json.Marshal of a manifest, database.go:243: the keys of a mapping in
\* sorted order.
jsonMarshal(state) ==
    "{\"spec\":{\"image\":\"" \o state["spec.image"]
        \o "\",\"replicas\":" \o Itoa(state["spec.replicas"]) \o "}}"

\* generateHash, database.go:238-250; the digest is written as the text it
\* is the digest of.
generateHash(state) ==
    IF state = NoManifest THEN "" ELSE "sha256:" \o jsonMarshal(state)

\* The hash taken of the live state.
SetHash_OfLiveState(record) ==
    IF record.DesiredState # NoManifest
    THEN [record EXCEPT !.LastKnownGoodHash = generateHash(record.LiveState)]
    ELSE record

\* SaveDriftRecord, "Generate hash for desired state", database.go:273-276
SetHash(record) ==
    IF record.DesiredState # NoManifest
    THEN [record EXCEPT !.LastKnownGoodHash = generateHash(record.DesiredState)]
    ELSE record

\* handleDriftStateTransition, controller.go:241
handleDriftStateTransition(existingRecord, newRecord, now) ==
    IF existingRecord = NoRecord
    THEN IF newRecord.DriftDetected
         THEN [newRecord EXCEPT !.DriftStatus = "active", !.FirstDetected = now]
         ELSE [newRecord EXCEPT !.DriftStatus = "none"]
    ELSE IF existingRecord.drift_status = "active" /\ ~newRecord.DriftDetected
         THEN [newRecord EXCEPT !.DriftStatus = "resolved",
                                !.ResolvedAt = now,
                                !.ResolutionMessage = ResolutionMessage,
                                !.FirstDetected = existingRecord.first_detected]
         ELSE IF newRecord.DriftDetected
              THEN IF existingRecord.drift_status # "active"
                   THEN [newRecord EXCEPT !.DriftStatus = "active",
                                          !.FirstDetected = now]
                   ELSE [newRecord EXCEPT !.DriftStatus = "active",
                                          !.FirstDetected = existingRecord.first_detected]
              ELSE [newRecord EXCEPT !.DriftStatus = "none"]

\* The events with "continued" logged on every pass that finds an active
\* record still drifting.
transitionEvents_ContinuedAlways(existingRecord, newRecord) ==
    IF existingRecord = NoRecord
    THEN IF newRecord.DriftDetected THEN <<"detected">> ELSE <<>>
    ELSE IF existingRecord.drift_status = "active" /\ ~newRecord.DriftDetected
         THEN <<"resolved">>
         ELSE IF newRecord.DriftDetected
              THEN IF existingRecord.drift_status # "active"
                   THEN <<"detected">>
                   ELSE <<"continued">>
              ELSE <<>>

\* The calls of logDriftDetected, logDriftResolved and logDriftContinued in
\* handleDriftStateTransition, controller.go:241-296, in the order made;
\* each logs one event for the resource (controller.go:299-339) and, but
\* for "resolved", one line per change after it.
transitionEvents(existingRecord, newRecord) ==
    IF existingRecord = NoRecord
    THEN IF newRecord.DriftDetected THEN <<"detected">> ELSE <<>>
    ELSE IF existingRecord.drift_status = "active" /\ ~newRecord.DriftDetected
         THEN <<"resolved">>
         ELSE IF newRecord.DriftDetected
              THEN IF existingRecord.drift_status # "active"
                   THEN <<"detected">>
                   ELSE IF Len(newRecord.DriftDetails)
                              # Len(existingRecord.drift_details)
                        THEN <<"continued">>
                        ELSE <<>>
              ELSE <<>>

\* SaveDriftRecord's transitions with the resolved branch taken for every
\* active prior record, whatever the new diff says.
SaveStateTransition_ResolveAny(existingRecord, record, now) ==
    IF existingRecord # NoRecord
    THEN IF existingRecord.drift_status = "active"
         THEN [record EXCEPT !.DriftStatus = "resolved",
                             !.ResolvedAt = now,
                             !.ResolutionMessage = ResolutionMessage]
         ELSE IF record.DriftDetected
              THEN [record EXCEPT !.DriftStatus = "active",
                                  !.FirstDetected = now]
              ELSE [record EXCEPT !.DriftStatus = "none"]
    ELSE IF record.DriftDetected
         THEN [record EXCEPT !.DriftStatus = "active", !.FirstDetected = now]
         ELSE [record EXCEPT !.DriftStatus = "none"]

\* SaveDriftRecord's transitions stamping first_detected on every pass
\* that finds drift, the continuing ones included.
SaveStateTransition_Restamp(existingRecord, record, now) ==
    IF existingRecord # NoRecord
    THEN IF existingRecord.drift_status = "active" /\ ~record.DriftDetected
         THEN [record EXCEPT !.DriftStatus = "resolved",
                             !.ResolvedAt = now,
                             !.ResolutionMessage = ResolutionMessage]
         ELSE IF record.DriftDetected
              THEN [record EXCEPT !.DriftStatus = "active",
                                  !.FirstDetected = now]
              ELSE [record EXCEPT !.DriftStatus = "none"]
    ELSE IF record.DriftDetected
         THEN [record EXCEPT !.DriftStatus = "active", !.FirstDetected = now]
         ELSE [record EXCEPT !.DriftStatus = "none"]

\* SaveDriftRecord, "Handle state transitions", database.go:278-310
SaveStateTransition(existingRecord, record, now) ==
    IF existingRecord # NoRecord
    THEN IF existingRecord.drift_status = "active" /\ ~record.DriftDetected
         THEN [record EXCEPT !.DriftStatus = "resolved",
                             !.ResolvedAt = now,
                             !.ResolutionMessage = ResolutionMessage]
         ELSE IF record.DriftDetected
              THEN IF existingRecord.drift_status # "active"
                   THEN [record EXCEPT !.DriftStatus = "active",
                                       !.FirstDetected = now]
                   ELSE [record EXCEPT !.DriftStatus = "active",
                                       !.FirstDetected = existingRecord.first_detected]
              ELSE [record EXCEPT !.DriftStatus = "none"]
    ELSE IF record.DriftDetected
         THEN [record EXCEPT !.DriftStatus = "active", !.FirstDetected = now]
         ELSE [record EXCEPT !.DriftStatus = "none"]

\* The update without the conditional $set of resolution_message.
ApplySet_NoMessage(doc, record) ==
    [doc EXCEPT
        !.drift_detected = record.DriftDetected,
        !.drift_status = record.DriftStatus,
        !.drift_details = record.DriftDetails,
        !.desired_state = record.DesiredState,
        !.live_state = record.LiveState,
        !.last_known_good_hash = record.LastKnownGoodHash,
        !.first_detected =
            IF record.FirstDetected # Null THEN record.FirstDetected ELSE @,
        !.resolved_at =
            IF record.ResolvedAt # Null THEN record.ResolvedAt ELSE @]

\* The update with resolved_at among the fields always set.
ApplySet_AlwaysResolvedAt(doc, record) ==
    [doc EXCEPT
        !.drift_detected = record.DriftDetected,
        !.drift_status = record.DriftStatus,
        !.drift_details = record.DriftDetails,
        !.desired_state = record.DesiredState,
        !.live_state = record.LiveState,
        !.last_known_good_hash = record.LastKnownGoodHash,
        !.first_detected =
            IF record.FirstDetected # Null THEN record.FirstDetected ELSE @,
        !.resolved_at = record.ResolvedAt,
        !.resolution_message =
            IF record.ResolutionMessage # "" THEN record.ResolutionMessage ELSE @]

\* The $set part of the update, database.go:313-342: the fields always set,
\* and first_detected, resolved_at, resolution_message only when non-nil.
ApplySet(doc, record) ==
    [doc EXCEPT
        !.drift_detected = record.DriftDetected,
        !.drift_status = record.DriftStatus,
        !.drift_details = record.DriftDetails,
        !.desired_state = record.DesiredState,
        !.live_state = record.LiveState,
        !.last_known_good_hash = record.LastKnownGoodHash,
        !.first_detected =
            IF record.FirstDetected # Null THEN record.FirstDetected ELSE @,
        !.resolved_at =
            IF record.ResolvedAt # Null THEN record.ResolvedAt ELSE @,
        !.resolution_message =
            IF record.ResolutionMessage # "" THEN record.ResolutionMessage ELSE @]

\* The $setOnInsert part of the update, database.go:327-330.
SetOnInsert(doc, record) ==
    [doc EXCEPT !.id = record.ID, !.created_at = record.CreatedAt]

\* The update with _id and created_at among the fields of $set.
UpdateOne_SetIdentity(old, record) ==
    ApplySet(SetOnInsert(old, record), record)

\* coll.UpdateOne(filter, update, upsert), database.go:344-345: the matching
\* document is updated with $set; when there is none (old is NoRecord) a
\* document is inserted with the fields of $setOnInsert and of $set.
UpdateOne(old, record) ==
    IF old = NoRecord
    THEN ApplySet(SetOnInsert(old, record), record)
    ELSE ApplySet(old, record)

\* An insert of a further document whatever the collection holds.
UpsertCount_InsertAlways(n) == n + 1

\* The number of documents with the resource_id after UpdateOne with
\* upsert, n being their number before: one is inserted only when the
\* filter matches none.
UpsertCount(n) == IF n = 0 THEN 1 ELSE n

(* ------------------------------- init --------------------------------- *)

NoRec ==
    NewDriftRecord(Null, Null, [Detected |-> FALSE, Changes |-> <<>>],
                   NoManifest, NoManifest)

\* NewDriftController, controller.go:30: stopCh is made, isRunning is false;
\* NewGitClient has made an empty temporary directory.  The cluster holds
\* one object, the Deployment.
Init ==
    /\ store = [r \in RecordIDs |-> NoRecord]
    /\ copies = [r \in RecordIDs |-> 0]
    /\ live = [r \in Resources |->
                  IF r = "Deployment:ns:app" THEN InSync ELSE NoManifest]
    /\ stray = "none"
    /\ dbDown = FALSE
    /\ apiDown = FALSE
    /\ repo = "empty"
    /\ clock = 0
    /\ isRunning = FALSE
    /\ stopCh = "open"
    /\ ctxDone = FALSE
    /\ panicked = FALSE
    /\ pc = [t \in Threads |-> IF t \in Loops THEN "unborn" ELSE "idle"]
    /\ pairIdx = [t \in Runners |-> 0]
    /\ resIdx = [t \in Runners |-> 0]
    /\ listed = [t \in Runners |-> <<>>]
    /\ existing = [t \in Runners |-> NoRecord]
    /\ getErr = [t \in Runners |-> "nil"]
    /\ logged = [t \in Runners |-> <<>>]
    /\ dbExisting = [t \in Runners |-> NoRecord]
    /\ rec = [t \in Runners |-> NoRec]
    /\ passStart = [t \in Runners |-> 0]
    /\ pullErr = [t \in Runners |-> FALSE]
    /\ UnitIdle

(* ------------------------------ a pass -------------------------------- *)

passVars == <<pairIdx, resIdx, listed, existing, getErr, logged, dbExisting, rec,
              passStart, pullErr>>
ctlVars == <<isRunning, stopCh, ctxDone, panicked>>
faultVars == <<stray, dbDown, apiDown>>

\* where a thread rests between passes: the loop in its select, the caller
\* of TriggerManualAnalysis back from the call
Rest(t) == IF t \in Loops THEN "select" ELSE "returned"

\* Pull, git.go:78-95: git pull in repoPath fails outside a clone, and may
\* fail in one.  The clock ticks with every pull that succeeds.
Pull(t) ==
    /\ \E err \in BOOLEAN :
          /\ ~err => (repo = "cloned" /\ clock < MaxTime)
          /\ pullErr' = [pullErr EXCEPT ![t] = err]
          /\ clock' = IF err THEN clock ELSE clock + 1
          /\ passStart' = [passStart EXCEPT ![t] = IF err THEN 0 ELSE clock + 1]
    /\ pc' = [pc EXCEPT ![t] = "pulled"]
    /\ UNCHANGED <<store, copies, live, faultVars, repo, ctlVars, pairIdx,
                   resIdx, listed, existing, getErr, logged, dbExisting, rec>>

\* The pass with the error of Pull ignored.
BeginPass_IgnorePullError(t) ==
    /\ pc[t] = "pulled"
    /\ ~panicked
    /\ pc' = [pc EXCEPT ![t] = "list"]
    /\ pairIdx' = [pairIdx EXCEPT ![t] = 1]
    /\ pullErr' = [pullErr EXCEPT ![t] = FALSE]
    /\ UNCHANGED <<store, copies, live, faultVars, repo, clock, ctlVars, resIdx,
                   listed, existing, getErr, logged, dbExisting, rec, passStart>>
    /\ UNCHANGED unitVars

\* performDriftAnalysis, controller.go:117-139: after a failed Pull the pass
\* is abandoned; otherwise it begins with the first (namespace, kind) pair.
\* (GetNamespaces returns the configured namespaces and does not fail.)
BeginPass(t) ==
    /\ pc[t] = "pulled"
    /\ ~panicked
    /\ IF pullErr[t]
       THEN /\ pc' = [pc EXCEPT ![t] = Rest(t)]
            /\ pullErr' = [pullErr EXCEPT ![t] = FALSE]
            /\ UNCHANGED pairIdx
       ELSE /\ pc' = [pc EXCEPT ![t] = "list"]
            /\ pairIdx' = [pairIdx EXCEPT ![t] = 1]
            /\ UNCHANGED pullErr
    /\ UNCHANGED <<store, copies, live, faultVars, repo, clock, ctlVars, resIdx,
                   listed, existing, getErr, logged, dbExisting, rec, passStart>>
    /\ UNCHANGED unitVars

\* analyzeResources returns: the loop of performDriftAnalysis (140-145) goes
\* on to the next (namespace, kind) pair, or the pass ends.
NextPair(t) ==
    /\ resIdx' = [resIdx EXCEPT ![t] = 0]
    /\ listed' = [listed EXCEPT ![t] = <<>>]
    /\ IF pairIdx[t] < Len(Kinds)
       THEN /\ pairIdx' = [pairIdx EXCEPT ![t] = @ + 1]
            /\ pc' = [pc EXCEPT ![t] = "list"]
            /\ UNCHANGED passStart
       ELSE /\ pairIdx' = [pairIdx EXCEPT ![t] = 0]
            /\ passStart' = [passStart EXCEPT ![t] = 0]
            /\ pc' = [pc EXCEPT ![t] = Rest(t)]

\* analyzeSingleResource returns: the loop of analyzeResources (164-166)
\* goes on to the next live resource, or analyzeResources returns.
Advance(t) ==
    IF resIdx[t] < Len(listed[t])
    THEN /\ resIdx' = [resIdx EXCEPT ![t] = @ + 1]
         /\ pc' = [pc EXCEPT ![t] = "analyze"]
         /\ UNCHANGED <<pairIdx, listed, passStart>>
    ELSE NextPair(t)

\* The listing fails and the whole pass ends with it.
ListFailed_AbortPass(t) ==
    /\ resIdx' = [resIdx EXCEPT ![t] = 0]
    /\ listed' = [listed EXCEPT ![t] = <<>>]
    /\ pairIdx' = [pairIdx EXCEPT ![t] = 0]
    /\ passStart' = [passStart EXCEPT ![t] = 0]
    /\ pc' = [pc EXCEPT ![t] = Rest(t)]

\* analyzeResources, controller.go:154-160: ListResources fails; the error
\* is logged and analyzeResources returns.
ListFailed(t) == NextPair(t)

\* An object of the cluster as ListResources returns it.
LiveObject(r) == [metadata |-> TRUE, name |-> NameOf[r], manifest |-> live[r]]

\* The malformed object: without metadata, or with metadata without a name.
StrayObject ==
    [metadata |-> stray # "no metadata", name |-> "", manifest |-> InSync]

\* k8sClient.ListResources(kind, namespace) of the i-th pair: the objects the
\* cluster holds, the malformed one first.
Listing(i) ==
    LET present == SelectSeq(PairResources[i], LAMBDA r : live[r] # NoManifest)
        objects == [k \in 1..Len(present) |-> LiveObject(present[k])]
    IN  IF Kinds[i] = "ConfigMap" /\ stray # "none"
        THEN <<StrayObject>> \o objects
        ELSE objects

\* The listing of a pass that also drops the records of the resources of
\* the pair the cluster no longer holds.
ListResources_Prune(t) ==
    /\ pc[t] = "list"
    /\ ~panicked
    /\ IF apiDown
       THEN ListFailed(t) /\ UNCHANGED <<store, copies>>
       ELSE LET liveResources == Listing(pairIdx[t])
                gone == {r \in Resources :
                            /\ \E k \in 1..Len(PairResources[pairIdx[t]]) :
                                  PairResources[pairIdx[t]][k] = r
                            /\ live[r] = NoManifest}
            IN  /\ store' = [r \in RecordIDs |->
                                IF r \in gone THEN NoRecord ELSE store[r]]
                /\ copies' = [r \in RecordIDs |->
                                 IF r \in gone THEN 0 ELSE copies[r]]
                /\ IF Len(liveResources) = 0
                   THEN NextPair(t)
                   ELSE /\ listed' = [listed EXCEPT ![t] = liveResources]
                        /\ resIdx' = [resIdx EXCEPT ![t] = 1]
                        /\ pc' = [pc EXCEPT ![t] = "analyze"]
                        /\ UNCHANGED <<pairIdx, passStart>>
    /\ UNCHANGED <<live, faultVars, repo, clock, ctlVars, existing, getErr, logged,
                   dbExisting, rec, pullErr>>
    /\ UNCHANGED unitVars

\* analyzeResources, controller.go:150-163: ListResources of the pair; on an
\* error, and when there is nothing to analyze, it returns.
ListResources(t) ==
    /\ pc[t] = "list"
    /\ ~panicked
    /\ IF apiDown
       THEN ListFailed(t)
       ELSE LET liveResources == Listing(pairIdx[t])
            IN  IF Len(liveResources) = 0
                THEN NextPair(t)
                ELSE /\ listed' = [listed EXCEPT ![t] = liveResources]
                     /\ resIdx' = [resIdx EXCEPT ![t] = 1]
                     /\ pc' = [pc EXCEPT ![t] = "analyze"]
                     /\ UNCHANGED <<pairIdx, passStart>>
    /\ UNCHANGED <<store, copies, live, faultVars, repo, clock, ctlVars,
                   existing, getErr, logged, dbExisting, rec, pullErr>>
    /\ UNCHANGED unitVars

\* the resource_id of the live resource thread t is at
CurrentID(t) ==
    ResourceID(Kinds[pairIdx[t]], Namespace, listed[t][resIdx[t]].name)

\* The checks of analyzeSingleResource without the one of the name.
Malformed_MetadataOnly(liveResource) == ~liveResource.metadata

\* analyzeSingleResource, controller.go:170-180: no metadata mapping, or no
\* (or an empty) metadata.name.
Malformed(liveResource) ==
    ~liveResource.metadata \/ liveResource.name = ""

\* GetManifestForResource, git.go:150: the document of the working tree, or
\* an error (nil) when there is none or the tree cannot be walked.
GetManifestForResource(id) ==
    IF repo = "cloned" /\ id \in Resources THEN GitTree[id] ELSE NoManifest

\* uuid.New(), controller.go:216: an id no other candidate record has.  A
\* pass builds one candidate per resource_id, so the number of the pass
\* tells the candidates of a resource_id apart.
NewID(t) == passStart[t]

\* mongo.ErrNoDocuments, what FindOne(...).Decode returns when the filter
\* matches no document.
ErrNoDocuments == "mongo: no documents in result"

\* GetDriftRecord, database.go:350: the stored document of the resource_id
\* and a nil error, or nil and the error of FindOne.
GetDriftRecord(id) ==
    IF dbDown
    THEN [record |-> NoRecord, err |-> "server selection error"]
    ELSE IF store[id] = NoRecord
         THEN [record |-> NoRecord, err |-> ErrNoDocuments]
         ELSE [record |-> store[id], err |-> "nil"]

\* analyzeSingleResource, controller.go:185-230, of a well-formed live
\* resource: the desired manifest, the diff, the read of the prior record
\* (whose error is logged and nothing more), handleDriftStateTransition.
Evaluate(t) ==
    /\ \E order \in KeyOrders :
          LET liveResource == listed[t][resIdx[t]]
              resourceID == CurrentID(t)
              desiredResource == GetManifestForResource(resourceID)
              result == DriftResult(order, liveResource.manifest,
                                    desiredResource)
              got == GetDriftRecord(resourceID)
              driftRecord == NewDriftRecord(NewID(t), clock, result,
                                 desiredResource, liveResource.manifest)
          IN  /\ existing' = [existing EXCEPT ![t] = got.record]
              /\ getErr' = [getErr EXCEPT ![t] = got.err]
              /\ logged' = [logged EXCEPT ![t] =
                     transitionEvents(got.record, driftRecord)]
              /\ rec' = [rec EXCEPT ![t] =
                     handleDriftStateTransition(got.record, driftRecord,
                                                clock)]
    /\ pc' = [pc EXCEPT ![t] = "save"]
    /\ UNCHANGED <<pairIdx, resIdx, listed, passStart>>

\* analyzeSingleResource, controller.go:169-230: the checks of the live
\* resource, then its evaluation.
AnalyzeSingleResource(t) ==
    /\ pc[t] = "analyze"
    /\ ~panicked
    /\ IF Malformed(listed[t][resIdx[t]])
       THEN /\ Advance(t)
            /\ UNCHANGED <<existing, getErr, logged, rec>>
       ELSE Evaluate(t)
    /\ UNCHANGED <<store, copies, live, faultVars, repo, clock, ctlVars,
                   dbExisting, pullErr>>
    /\ UNCHANGED unitVars

\* analyzeSingleResource as two steps, for what other threads do to the
\* working tree meanwhile.  The first: the checks of the live resource
\* (controller.go:169-180) and the call of GetManifestForResource (185),
\* whose GetK8sManifests begins to walk repoPath (git.go:107-112).
GetManifestBegin(t) ==
    /\ pc[t] = "analyze"
    /\ ~panicked
    /\ IF Malformed(listed[t][resIdx[t]])
       THEN Advance(t)
       ELSE /\ pc' = [pc EXCEPT ![t] = "lookup"]
            /\ UNCHANGED <<pairIdx, resIdx, listed, passStart>>
    /\ UNCHANGED <<store, copies, live, faultVars, repo, clock, ctlVars,
                   existing, getErr, logged, dbExisting, rec, pullErr>>
    /\ UNCHANGED unitVars

\* The second: the walk ends (git.go:113-167) with what the tree then
\* holds, and the evaluation goes on from there.
GetManifestEnd(t) ==
    /\ pc[t] = "lookup"
    /\ ~panicked
    /\ Evaluate(t)
    /\ UNCHANGED <<store, copies, live, faultVars, repo, clock, ctlVars,
                   dbExisting, pullErr>>
    /\ UNCHANGED unitVars

\* SaveDriftRecord, database.go:253-310: its own read of the prior record,
\* whose error it drops, and its own transition.
SaveDriftRecordRead(t) ==
    /\ pc[t] = "save"
    /\ ~panicked
    /\ LET existingRecord == GetDriftRecord(CurrentID(t)).record
       IN  /\ dbExisting' = [dbExisting EXCEPT ![t] = existingRecord]
           /\ rec' = [rec EXCEPT ![t] =
                  SaveStateTransition(existingRecord, SetHash(rec[t]), clock)]
    /\ pc' = [pc EXCEPT ![t] = "update"]
    /\ UNCHANGED <<store, copies, live, faultVars, repo, clock, ctlVars, pairIdx,
                   resIdx, listed, existing, getErr, logged, passStart, pullErr>>
    /\ UNCHANGED unitVars

\* SaveDriftRecord, database.go:312-346: the upsert, which writes nothing
\* when it fails; then the next resource.
SaveDriftRecordUpdate(t) ==
    /\ pc[t] = "update"
    /\ ~panicked
    /\ IF dbDown
       THEN UNCHANGED <<store, copies>>
       ELSE /\ store' = [store EXCEPT ![CurrentID(t)] = UpdateOne(@, rec[t])]
            /\ copies' = [copies EXCEPT ![CurrentID(t)] = UpsertCount(@)]
    /\ existing' = [existing EXCEPT ![t] = NoRecord]
    /\ getErr' = [getErr EXCEPT ![t] = "nil"]
    /\ logged' = [logged EXCEPT ![t] = <<>>]
    /\ dbExisting' = [dbExisting EXCEPT ![t] = NoRecord]
    /\ rec' = [rec EXCEPT ![t] = NoRec]
    /\ Advance(t)
    /\ UNCHANGED <<live, faultVars, repo, clock, ctlVars, pullErr>>
    /\ UNCHANGED unitVars

(* ----------------------------- the loop ------------------------------- *)

\* runDriftAnalysis, controller.go:98-108: the select takes a tick and
\* performDriftAnalysis calls Pull.
LoopTick(g) ==
    /\ pc[g] = "select"
    /\ ~panicked
    /\ Pull(g)
    /\ UNCHANGED unitVars

LoopExit(g) ==
    /\ pc[g] = "select"
    /\ ~panicked
    /\ ctxDone \/ stopCh = "closed"
    /\ pc' = [pc EXCEPT ![g] = "unborn"]
    /\ UNCHANGED <<store, copies, live, faultVars, repo, clock, ctlVars, passVars>>
    /\ UNCHANGED unitVars

(* ----------------------------- the API -------------------------------- *)

\* TriggerManualAnalysis, controller.go:112
TriggerManualAnalysis(m) ==
    /\ pc[m] = "idle"
    /\ ~panicked
    /\ Pull(m)
    /\ UNCHANGED unitVars

\* Start, controller.go:54-58: the isRunning check.
StartCheck(c) ==
    /\ pc[c] = "idle"
    /\ ~panicked
    /\ pc' = [pc EXCEPT ![c] = IF isRunning THEN "idle" ELSE "start_clone"]
    /\ UNCHANGED <<store, copies, live, faultVars, repo, clock, ctlVars, passVars>>
    /\ UNCHANGED unitVars

\* Clone, git.go:60: git clone refuses a destination that is not empty.
StartClone(c) ==
    /\ pc[c] = "start_clone"
    /\ ~panicked
    /\ pc' = [pc EXCEPT ![c] = IF repo = "cloned" THEN "idle" ELSE "start_cloning"]
    /\ UNCHANGED <<store, copies, live, faultVars, repo, clock, ctlVars, passVars>>
    /\ UNCHANGED unitVars

\* Start, controller.go:62-71: the clone ends; on success isRunning is set
\* and the loop goroutine spawned.
StartFinish(c) ==
    /\ pc[c] = "start_cloning"
    /\ ~panicked
    /\ \/ /\ pc' = [pc EXCEPT ![c] = "idle"]
          /\ UNCHANGED <<repo, isRunning>>
       \/ \E g \in Loops :
             /\ pc[g] = "unborn"
             /\ repo' = "cloned"
             /\ isRunning' = TRUE
             /\ pc' = [pc EXCEPT ![c] = "idle", ![g] = "select"]
    /\ UNCHANGED <<store, copies, live, faultVars, clock, stopCh, ctxDone, panicked, passVars>>
    /\ UNCHANGED unitVars

\* Stop, controller.go:74-78
StopCheck(c) ==
    /\ pc[c] = "idle"
    /\ ~panicked
    /\ pc' = [pc EXCEPT ![c] = IF isRunning THEN "stop_set" ELSE "idle"]
    /\ UNCHANGED <<store, copies, live, faultVars, repo, clock, ctlVars, passVars>>
    /\ UNCHANGED unitVars

\* Stop, controller.go:81
StopSet(c) ==
    /\ pc[c] = "stop_set"
    /\ ~panicked
    /\ isRunning' = FALSE
    /\ pc' = [pc EXCEPT ![c] = "stop_close"]
    /\ UNCHANGED <<store, copies, live, faultVars, repo, clock, stopCh, ctxDone, panicked, passVars>>
    /\ UNCHANGED unitVars

\* Stop, controller.go:82: close of a closed channel panics.
StopClose(c) ==
    /\ pc[c] = "stop_close"
    /\ ~panicked
    /\ IF stopCh = "closed"
       THEN /\ panicked' = TRUE
            /\ UNCHANGED <<stopCh, pc>>
       ELSE /\ stopCh' = "closed"
            /\ pc' = [pc EXCEPT ![c] = "stop_cleanup"]
            /\ UNCHANGED panicked
    /\ UNCHANGED <<store, copies, live, faultVars, repo, clock, isRunning, ctxDone, passVars>>
    /\ UNCHANGED unitVars

\* Stop, controller.go:84-89: Cleanup removes the working tree.
StopCleanup(c) ==
    /\ pc[c] = "stop_cleanup"
    /\ ~panicked
    /\ repo' = "removed"
    /\ pc' = [pc EXCEPT ![c] = "idle"]
    /\ UNCHANGED <<store, copies, live, faultVars, clock, ctlVars, passVars>>
    /\ UNCHANGED unitVars

(* -------------------------- the environment --------------------------- *)

\* Someone changes a live resource of the cluster.
LiveChange(r, m) ==
    /\ ~panicked
    /\ live[r] # NoManifest
    /\ live[r] # m
    /\ live' = [live EXCEPT ![r] = m]
    /\ UNCHANGED <<store, copies, faultVars, repo, clock, ctlVars, pc, passVars>>
    /\ UNCHANGED unitVars

\* Someone creates a resource in the cluster.
LiveCreate(r, m) ==
    /\ ~panicked
    /\ live[r] = NoManifest
    /\ live' = [live EXCEPT ![r] = m]
    /\ UNCHANGED <<store, copies, faultVars, repo, clock, ctlVars, pc, passVars>>
    /\ UNCHANGED unitVars

\* Someone deletes a live resource of the cluster.
LiveDelete(r) ==
    /\ ~panicked
    /\ live[r] # NoManifest
    /\ live' = [live EXCEPT ![r] = NoManifest]
    /\ UNCHANGED <<store, copies, faultVars, repo, clock, ctlVars, pc, passVars>>
    /\ UNCHANGED unitVars

\* A malformed ConfigMap object appears in the cluster, or goes.
StrayChange(shape) ==
    /\ ~panicked
    /\ stray # shape
    /\ stray' = shape
    /\ UNCHANGED <<store, copies, live, dbDown, apiDown, repo, clock, ctlVars,
                   pc, passVars>>
    /\ UNCHANGED unitVars

\* The database stops answering: reads and writes fail.
DbFail ==
    /\ ~panicked
    /\ ~dbDown
    /\ dbDown' = TRUE
    /\ UNCHANGED <<store, copies, live, stray, apiDown, repo, clock, ctlVars,
                   pc, passVars>>
    /\ UNCHANGED unitVars

DbRecover ==
    /\ ~panicked
    /\ dbDown
    /\ dbDown' = FALSE
    /\ UNCHANGED <<store, copies, live, stray, apiDown, repo, clock, ctlVars,
                   pc, passVars>>
    /\ UNCHANGED unitVars

\* The Kubernetes API stops answering: listings fail.
ApiFail ==
    /\ ~panicked
    /\ ~apiDown
    /\ apiDown' = TRUE
    /\ UNCHANGED <<store, copies, live, stray, dbDown, repo, clock, ctlVars,
                   pc, passVars>>
    /\ UNCHANGED unitVars

ApiRecover ==
    /\ ~panicked
    /\ apiDown
    /\ apiDown' = FALSE
    /\ UNCHANGED <<store, copies, live, stray, dbDown, repo, clock, ctlVars,
                   pc, passVars>>
    /\ UNCHANGED unitVars

\* The context given to Start is cancelled (main.go:127, 143).
CancelContext ==
    /\ ~panicked
    /\ ~ctxDone
    /\ ctxDone' = TRUE
    /\ UNCHANGED <<store, copies, live, faultVars, repo, clock, isRunning, stopCh, panicked, pc,
                   passVars>>
    /\ UNCHANGED unitVars

\* The steps of a pass, by any thread.
PassStep ==
    \/ \E t \in Runners : BeginPass(t)
    \/ \E t \in Runners : ListResources(t)
    \/ \E t \in Runners : AnalyzeSingleResource(t)
    \/ \E t \in Runners : SaveDriftRecordRead(t)
    \/ \E t \in Runners : SaveDriftRecordUpdate(t)

\* The controller from its construction on, in a cluster nobody changes:
\* Start and Stop calls, the loop goroutines and their passes.
LifecycleNext ==
    \/ PassStep
    \/ \E g \in Loops : LoopTick(g)
    \/ \E g \in Loops : LoopExit(g)
    \/ \E c \in Callers : StartCheck(c)
    \/ \E c \in Callers : StartClone(c)
    \/ \E c \in Callers : StartFinish(c)
    \/ \E c \in Callers : StopCheck(c)
    \/ \E c \in Callers : StopSet(c)
    \/ \E c \in Callers : StopClose(c)
    \/ \E c \in Callers : StopCleanup(c)
    \/ CancelContext

LifecycleSpec == Init /\ [][LifecycleNext]_vars

\* The state after NewDriftController and one successful Start: the working
\* tree is cloned, isRunning is set, the loop goroutine waits in its select.
\* The cluster holds one object, the Deployment.
Started ==
    /\ store = [r \in RecordIDs |-> NoRecord]
    /\ copies = [r \in RecordIDs |-> 0]
    /\ live = [r \in Resources |->
                  IF r = "Deployment:ns:app" THEN InSync ELSE NoManifest]
    /\ stray = "none"
    /\ dbDown = FALSE
    /\ apiDown = FALSE
    /\ repo = "cloned"
    /\ clock = 0
    /\ isRunning = TRUE
    /\ stopCh = "open"
    /\ ctxDone = FALSE
    /\ panicked = FALSE
    /\ pc = [t \in Threads |->
                IF t = "g1" THEN "select"
                ELSE IF t \in Loops THEN "unborn" ELSE "idle"]
    /\ pairIdx = [t \in Runners |-> 0]
    /\ resIdx = [t \in Runners |-> 0]
    /\ listed = [t \in Runners |-> <<>>]
    /\ existing = [t \in Runners |-> NoRecord]
    /\ getErr = [t \in Runners |-> "nil"]
    /\ logged = [t \in Runners |-> <<>>]
    /\ dbExisting = [t \in Runners |-> NoRecord]
    /\ rec = [t \in Runners |-> NoRec]
    /\ passStart = [t \in Runners |-> 0]
    /\ pullErr = [t \in Runners |-> FALSE]
    /\ UnitIdle

\* The running controller in a cluster whose resources change: the ticks of
\* the loop, manual triggers, the passes they run.
Next ==
    \/ PassStep
    \/ \E g \in Loops : LoopTick(g)
    \/ \E m \in Triggers : TriggerManualAnalysis(m)
    \/ \E r \in Resources : \E m \in LiveManifests(r) : LiveChange(r, m)

Spec == Started /\ [][Next]_vars

\* The running controller with the loop goroutine alone: no manual trigger,
\* so the passes follow one another.
SeqNext ==
    \/ PassStep
    \/ \E g \in Loops : LoopTick(g)
    \/ \E r \in Resources : \E m \in LiveManifests(r) : LiveChange(r, m)

SeqSpec == Started /\ [][SeqNext]_vars

\* The loop goroutine alone, with a database whose reads and writes fail
\* for a while.
DbFaultNext ==
    \/ PassStep
    \/ \E g \in Loops : LoopTick(g)
    \/ \E r \in Resources : \E m \in LiveManifests(r) : LiveChange(r, m)
    \/ DbFail
    \/ DbRecover

DbFaultSpec == Started /\ [][DbFaultNext]_vars

\* The loop goroutine alone, in a cluster that gets further objects and
\* whose API fails for a while.
ApiFaultNext ==
    \/ PassStep
    \/ \E g \in Loops : LoopTick(g)
    \/ \E r \in Resources : \E m \in LiveManifests(r) : LiveChange(r, m)
    \/ \E r \in Resources : \E m \in LiveManifests(r) : LiveCreate(r, m)
    \/ ApiFail
    \/ ApiRecover

ApiFaultSpec == Started /\ [][ApiFaultNext]_vars

\* The loop goroutine alone, in a cluster whose objects are created and
\* deleted and which may hold a malformed object.
ClusterNext ==
    \/ PassStep
    \/ \E g \in Loops : LoopTick(g)
    \/ \E r \in Resources : \E m \in LiveManifests(r) : LiveChange(r, m)
    \/ \E r \in Resources : \E m \in LiveManifests(r) : LiveCreate(r, m)
    \/ \E r \in Resources : LiveDelete(r)
    \/ \E shape \in Shapes \cup {"none"} : StrayChange(shape)

ClusterSpec == Started /\ [][ClusterNext]_vars

\* The running controller with the lookups of the desired manifest taking
\* time: the loop, manual triggers, Stop calls, in a cluster nobody changes.
GitAccessNext ==
    \/ \E t \in Runners : BeginPass(t)
    \/ \E t \in Runners : ListResources(t)
    \/ \E t \in Runners : GetManifestBegin(t)
    \/ \E t \in Runners : GetManifestEnd(t)
    \/ \E t \in Runners : SaveDriftRecordRead(t)
    \/ \E t \in Runners : SaveDriftRecordUpdate(t)
    \/ \E g \in Loops : LoopTick(g)
    \/ \E g \in Loops : LoopExit(g)
    \/ \E m \in Triggers : TriggerManualAnalysis(m)
    \/ \E c \in Callers : StopCheck(c)
    \/ \E c \in Callers : StopSet(c)
    \/ \E c \in Callers : StopClose(c)
    \/ \E c \in Callers : StopCleanup(c)

GitAccessSpec == Started /\ [][GitAccessNext]_vars

\* The running controller stopped by its callers, in a cluster whose
\* resources change: the loop, its passes, Stop calls.
StopNext ==
    \/ PassStep
    \/ \E g \in Loops : LoopTick(g)
    \/ \E g \in Loops : LoopExit(g)
    \/ \E c \in Callers : StopCheck(c)
    \/ \E c \in Callers : StopSet(c)
    \/ \E c \in Callers : StopClose(c)
    \/ \E c \in Callers : StopCleanup(c)
    \/ \E r \in Resources : \E m \in LiveManifests(r) : LiveChange(r, m)

StopSpec == Started /\ [][StopNext]_vars

\* The one thread that calls Start and Stop in the program: the main
\* goroutine, through the lifecycle component of main.go:119-124.
Owner == {"c1"}

\* The controller from its construction on, started and stopped by calls
\* that follow one another.
RestartNext ==
    \/ PassStep
    \/ \E g \in Loops : LoopTick(g)
    \/ \E g \in Loops : LoopExit(g)
    \/ \E c \in Owner : StartCheck(c)
    \/ \E c \in Owner : StartClone(c)
    \/ \E c \in Owner : StartFinish(c)
    \/ \E c \in Owner : StopCheck(c)
    \/ \E c \in Owner : StopSet(c)
    \/ \E c \in Owner : StopClose(c)
    \/ \E c \in Owner : StopCleanup(c)

RestartSpec == Init /\ [][RestartNext]_vars

(* --------------------- the diff engine on manifests -------------------- *)

\* The values of a manifest as Go holds them in an interface{}: a dynamic
\* type and a value.  Numbers are whole; the API machinery decodes them to
\* int64, encoding/json to float64, len() gives an int.
Int64(n) == [type |-> "int64", num |-> n]
Float64(n) == [type |-> "float64", num |-> n]
GoInt(n) == [type |-> "int", num |-> n]
String(s) == [type |-> "string", str |-> s]
\* map[string]interface{}: m is a function from its keys to values
Map(m) == [type |-> "map", map |-> m]
\* []interface{}
Slice(q) == [type |-> "slice", elems |-> q]

\* The kind of value in the place of the dynamic type: every number is a
\* number.
TypeOf_Kind(v) ==
    IF v.type \in {"int", "int64", "float64"} THEN "number" ELSE v.type

\* reflect.TypeOf, detector.go:57
TypeOf(v) == v.type

\* Scalars of strings only compare equal when they are numbers.
DeepEqual_NumbersOnly(a, b) == a.type \in {"int", "int64", "float64"} /\ a = b

\* reflect.DeepEqual on two scalars of the same dynamic type,
\* detector.go:119.  (A float64 NaN, which no JSON document decodes to,
\* would not equal itself.)
DeepEqual(a, b) == a = b

\* strings.ToLower and strings.Contains, detector.go:139-160
UpperCase == "ABCDEFGHIJKLMNOPQRSTUVWXYZ"
LowerCase == "abcdefghijklmnopqrstuvwxyz"

LowerChar(c) ==
    IF \E i \in 1..Len(UpperCase) : SubSeq(UpperCase, i, i) = c
    THEN LET i == CHOOSE k \in 1..Len(UpperCase) : SubSeq(UpperCase, k, k) = c
         IN  SubSeq(LowerCase, i, i)
    ELSE c

RECURSIVE ToLower(_)
ToLower(s) ==
    IF Len(s) = 0 THEN ""
    ELSE LowerChar(SubSeq(s, 1, 1)) \o ToLower(SubSeq(s, 2, Len(s)))

Contains(s, substr) ==
    \E i \in 1..(Len(s) - Len(substr) + 1) :
        SubSeq(s, i, i + Len(substr) - 1) = substr

\* The classification on the path as written, not lowercased.
classifyChange_CaseSensitive(field) ==
    IF Contains(field, "replicas") THEN "Scaling"
    ELSE IF Contains(field, "image") THEN "VersionChange"
    ELSE IF Contains(field, "resources") THEN "ResourceChange"
    ELSE IF Contains(field, "env") THEN "ConfigurationChange"
    ELSE IF Contains(field, "labels") THEN "LabelChange"
    ELSE IF Contains(field, "annotations") THEN "AnnotationChange"
    ELSE IF Contains(field, "ports") THEN "PortChange"
    ELSE IF Contains(field, "volume") THEN "VolumeChange"
    ELSE IF Contains(field, "secret") THEN "SecretChange"
    ELSE IF Contains(field, "configmap") THEN "ConfigMapChange"
    ELSE "GenericChange"

\* classifyChange, detector.go:138-165
classifyChange(field) ==
    LET fieldLower == ToLower(field)
    IN  IF Contains(fieldLower, "replicas") THEN "Scaling"
        ELSE IF Contains(fieldLower, "image") THEN "VersionChange"
        ELSE IF Contains(fieldLower, "resources") THEN "ResourceChange"
        ELSE IF Contains(fieldLower, "env") THEN "ConfigurationChange"
        ELSE IF Contains(fieldLower, "labels") THEN "LabelChange"
        ELSE IF Contains(fieldLower, "annotations") THEN "AnnotationChange"
        ELSE IF Contains(fieldLower, "ports") THEN "PortChange"
        ELSE IF Contains(fieldLower, "volume") THEN "VolumeChange"
        ELSE IF Contains(fieldLower, "secret") THEN "SecretChange"
        ELSE IF Contains(fieldLower, "configmap") THEN "ConfigMapChange"
        ELSE "GenericChange"

\* toInt, detector.go:218-231
toInt(v) ==
    IF v.type \in {"int", "int32", "int64", "float64"}
    THEN [val |-> v.num, ok |-> TRUE]
    ELSE [val |-> 0, ok |-> FALSE]

\* abs, detector.go:233-238
abs(x) == IF x < 0 THEN 0 - x ELSE x

\* The check guarded against a base of zero: no percentage, not significant.
isSignificantReplicaChange_ZeroGuard(from, to) ==
    LET fromInt == toInt(from)
        toInt_ == toInt(to)
        diff == abs(fromInt.val - toInt_.val)
    IN  IF ~fromInt.ok \/ ~toInt_.ok THEN FALSE
        ELSE IF fromInt.val = 0 THEN FALSE
        ELSE IF fromInt.val > 0 THEN diff * 100 >= 50 * fromInt.val
        ELSE diff * 100 <= 50 * fromInt.val

\* The change significant only above 50 percent.
isSignificantReplicaChange_Above(from, to) ==
    LET fromInt == toInt(from)
        toInt_ == toInt(to)
        diff == abs(fromInt.val - toInt_.val)
    IN  IF ~fromInt.ok \/ ~toInt_.ok THEN FALSE
        ELSE IF fromInt.val = 0 THEN diff > 0
        ELSE IF fromInt.val > 0 THEN diff * 100 > 50 * fromInt.val
        ELSE diff * 100 < 50 * fromInt.val

\* isSignificantReplicaChange, detector.go:204-216.  The quotient is a
\* float64: a division by zero gives +Inf (NaN for 0/0), which is at least
\* 50 (NaN is not).
isSignificantReplicaChange(from, to) ==
    LET fromInt == toInt(from)
        toInt_ == toInt(to)
        diff == abs(fromInt.val - toInt_.val)
    IN  IF ~fromInt.ok \/ ~toInt_.ok THEN FALSE
        ELSE IF fromInt.val = 0 THEN diff > 0
        ELSE IF fromInt.val > 0 THEN diff * 100 >= 50 * fromInt.val
        ELSE diff * 100 <= 50 * fromInt.val

\* assessSeverity, detector.go:167-202
assessSeverity(field, from, to) ==
    LET fieldLower == ToLower(field)
    IN  IF Contains(fieldLower, "image") THEN "high"
        ELSE IF Contains(fieldLower, "secret") THEN "high"
        ELSE IF Contains(fieldLower, "resources.limits") THEN "high"
        ELSE IF /\ Contains(fieldLower, "replicas")
                /\ isSignificantReplicaChange(from, to) THEN "high"
        ELSE IF Contains(fieldLower, "replicas") THEN "medium"
        ELSE IF Contains(fieldLower, "env") THEN "medium"
        ELSE IF Contains(fieldLower, "ports") THEN "medium"
        ELSE IF Contains(fieldLower, "volume") THEN "medium"
        ELSE IF Contains(fieldLower, "resources.requests") THEN "medium"
        ELSE "low"

\* models.DriftChange as createDriftChange fills it, detector.go:128-136
DriftChange(field, from, to, changeType, severity) ==
    [Field |-> field, From |-> from, To |-> to,
     Type |-> changeType, Severity |-> severity]

\* the keys of a mapping in the order ord visits them
RECURSIVE KeysInOrder(_, _, _)
KeysInOrder(ord, i, keys) ==
    IF i > Len(ord) THEN <<>>
    ELSE (IF ord[i] \in keys THEN <<ord[i]>> ELSE <<>>)
            \o KeysInOrder(ord, i + 1, keys)

\* deepCompare, detector.go:54-126.  ord is the order in which the range
\* loop of line 70 visits the keys.
RECURSIVE deepCompare(_, _, _, _)
RECURSIVE rangeDesiredMap(_, _, _, _, _, _)
RECURSIVE forEachIndex(_, _, _, _, _)

deepCompare(ord, path, liveV, desired) ==
    IF TypeOf(liveV) # TypeOf(desired)
    THEN <<DriftChange(path, desired, liveV, "TypeChange", "medium")>>
    ELSE IF TypeOf(liveV) = "map"
    THEN rangeDesiredMap(ord, KeysInOrder(ord, 1, DOMAIN desired.map), 1,
                         path, liveV, desired)
    ELSE IF TypeOf(liveV) = "slice"
    THEN (IF Len(liveV.elems) # Len(desired.elems)
          THEN <<DriftChange(path, GoInt(Len(desired.elems)),
                             GoInt(Len(liveV.elems)), "ArrayLength", "medium")>>
          ELSE <<>>)
         \o forEachIndex(ord, 0, path, liveV, desired)
    ELSE IF ~DeepEqual(liveV, desired)
    THEN <<DriftChange(path, desired, liveV, classifyChange(path),
                       assessSeverity(path, desired, liveV))>>
    ELSE <<>>

\* The loop going on to the next key without a change for a key the live
\* mapping lacks.
rangeDesiredMap_SkipMissing(ord, keys, k, path, liveV, desired) ==
    IF k > Len(keys) THEN <<>>
    ELSE LET key == keys[k]
             currentPath == IF path # "" THEN path \o "." \o key ELSE key
         IN  (IF key \notin DOMAIN liveV.map
              THEN <<>>
              ELSE deepCompare(ord, currentPath, liveV.map[key],
                               desired.map[key]))
             \o rangeDesiredMap(ord, keys, k + 1, path, liveV, desired)

\* the loop of detector.go:70-85 from the k-th key on
rangeDesiredMap(ord, keys, k, path, liveV, desired) ==
    IF k > Len(keys) THEN <<>>
    ELSE LET key == keys[k]
             currentPath == IF path # "" THEN path \o "." \o key ELSE key
         IN  (IF key \notin DOMAIN liveV.map
              THEN <<DriftChange(currentPath, desired.map[key], Nil,
                                 "MissingField", "high")>>
              ELSE deepCompare(ord, currentPath, liveV.map[key],
                               desired.map[key]))
             \o rangeDesiredMap(ord, keys, k + 1, path, liveV, desired)

\* The loop running over the indexes both sequences have.
forEachIndex_MinLen(ord, i, path, liveV, desired) ==
    LET minLen == IF Len(desired.elems) < Len(liveV.elems)
                  THEN Len(desired.elems) ELSE Len(liveV.elems)
        currentPath == path \o "[" \o Itoa(i) \o "]"
    IN  IF i >= minLen THEN <<>>
        ELSE deepCompare(ord, currentPath, liveV.elems[i + 1],
                         desired.elems[i + 1])
             \o forEachIndex(ord, i + 1, path, liveV, desired)

\* the loop of detector.go:103-116 from index i on
forEachIndex(ord, i, path, liveV, desired) ==
    LET maxLen == IF Len(desired.elems) > Len(liveV.elems)
                  THEN Len(desired.elems) ELSE Len(liveV.elems)
        currentPath == path \o "[" \o Itoa(i) \o "]"
    IN  IF i >= maxLen THEN <<>>
        ELSE (IF i < Len(liveV.elems) /\ i < Len(desired.elems)
              THEN deepCompare(ord, currentPath, liveV.elems[i + 1],
                               desired.elems[i + 1])
              ELSE IF i >= Len(liveV.elems)
              THEN <<DriftChange(currentPath, desired.elems[i + 1], Nil,
                                 "MissingElement", "medium")>>
              ELSE <<DriftChange(currentPath, Nil, liveV.elems[i + 1],
                                 "ExtraElement", "low")>>)
             \o forEachIndex(ord, i + 1, path, liveV, desired)

\* DetectDrift, detector.go:23-52, as one step: the result is filled from
\* the changes deepCompare returns for the two states from the empty path.
CallDetectDrift ==
    /\ ~driftResult.returned
    /\ liveState # Nil
    /\ LET changes == deepCompare(rangeOrder, "", liveState, desiredState)
       IN  driftResult' = [Detected |-> Len(changes) > 0,
                           Changes |-> changes,
                           returned |-> TRUE]
    /\ UNCHANGED <<liveState, desiredState, rangeOrder, managerVars, healthVars>>
    /\ UNCHANGED <<store, copies, live, faultVars, repo, clock, ctlVars, pc,
                   passVars>>

\* The manifests given to the engine.  Below the top level: scalars of the
\* dynamic types the decoders produce, sequences of up to MaxElems elements
\* and mappings over the keys image and replicas.
MaxElems == 2

InnerKeys == {"image", "replicas"}
InnerLeaves == {Int64(2), Int64(3), String("nginx")}
InnerMaps == {Map(m) : m \in UNION {[S -> InnerLeaves] : S \in SUBSET InnerKeys}}
Elements == {Int64(2), String("nginx"), Map("image" :> String("nginx"))}
Slices == {Slice(q) : q \in UNION {[1..n -> Elements] : n \in 0..MaxElems}}
Leaves == {Int64(2), Int64(3), Float64(2), String("nginx"), Nil}
Values == Leaves \cup Slices \cup InnerMaps

\* At the top level: the empty manifest, a manifest with the key spec, and
\* one with the keys spec and replicas.
StructuredManifests ==
    {Map(<<>>)}
        \cup {Map("spec" :> v) : v \in Values}
        \cup {Map("spec" :> v @@ "replicas" :> Int64(2)) : v \in Values}

\* the orders in which a range loop may visit the keys of these manifests
PermutationsOf(S) ==
    {q \in [1..Cardinality(S) -> S] : \A i, j \in DOMAIN q : i # j => q[i] # q[j]}

StructuredInputs ==
    {[liveV |-> l, desired |-> d, ord |-> o] :
        l \in StructuredManifests, d \in StructuredManifests,
        o \in PermutationsOf({"spec", "image", "replicas"})}

\* Manifests with one whole number under spec, for the replica rule.
MaxReplicas == 10

ReplicaKeys == {"replicas", "Replicas", "minReplicas", "count"}
Numbers == {Int64(n) : n \in 0..MaxReplicas} \cup {Float64(n) : n \in {2, 3}}

ReplicaInputs ==
    {[liveV |-> Map("spec" :> Map(k :> l)),
      desired |-> Map("spec" :> Map(k :> d)),
      ord |-> <<"spec", k>>] :
        k \in ReplicaKeys, l \in Numbers, d \in Numbers}

\* Manifests with one string at a path of two keys that differs, for the
\* classification by path.
PathWords ==
    {"replicas", "image", "resources", "env", "labels", "annotations",
     "ports", "volume", "secret", "configmap", "name", "Image",
     "volumeMounts", "imagePullSecrets", "configMapRef", "limits",
     "requests"}

PathInputs ==
    {[liveV |-> Map(a :> Map(b :> String("live"))),
      desired |-> Map(a :> Map(b :> String("git"))),
      ord |-> IF a = b THEN <<a>> ELSE <<a, b>>] :
        a \in PathWords, b \in PathWords}

DetectorInputs == StructuredInputs \cup ReplicaInputs \cup PathInputs

\* A caller holds a live and a desired manifest and calls DetectDrift; the
\* controller is as NewDriftController left it and takes no step.
DetectorInit ==
    /\ \E input \in DetectorInputs :
          /\ liveState = input.liveV
          /\ desiredState = input.desired
          /\ rangeOrder = input.ord
    /\ driftResult = NoResult
    /\ ManagerIdle
    /\ HealthIdle
    /\ store = [r \in RecordIDs |-> NoRecord]
    /\ copies = [r \in RecordIDs |-> 0]
    /\ live = [r \in Resources |->
                  IF r = "Deployment:ns:app" THEN InSync ELSE NoManifest]
    /\ stray = "none"
    /\ dbDown = FALSE
    /\ apiDown = FALSE
    /\ repo = "empty"
    /\ clock = 0
    /\ isRunning = FALSE
    /\ stopCh = "open"
    /\ ctxDone = FALSE
    /\ panicked = FALSE
    /\ pc = [t \in Threads |-> IF t \in Loops THEN "unborn" ELSE "idle"]
    /\ pairIdx = [t \in Runners |-> 0]
    /\ resIdx = [t \in Runners |-> 0]
    /\ listed = [t \in Runners |-> <<>>]
    /\ existing = [t \in Runners |-> NoRecord]
    /\ getErr = [t \in Runners |-> "nil"]
    /\ logged = [t \in Runners |-> <<>>]
    /\ dbExisting = [t \in Runners |-> NoRecord]
    /\ rec = [t \in Runners |-> NoRec]
    /\ passStart = [t \in Runners |-> 0]
    /\ pullErr = [t \in Runners |-> FALSE]

DetectorNext == CallDetectDrift

DetectorSpec == DetectorInit /\ [][DetectorNext]_vars

(* ------------------------ the lifecycle manager ------------------------ *)

controllerVars ==
    <<store, copies, live, faultVars, repo, clock, ctlVars, pc, passVars>>

\* The components whose start function can return an error: the database
\* one returns nil, main.go:114; driftController.Start can fail.
StartCanFail == {"drift-controller"}
\* The components whose health function can return an error, main.go:116,123.
HealthCanFail == {"database"}

\* stopComponents(stopAt), lifecycle.go:178-194: from the last component
\* back, until the one named stopAt is met.
RECURSIVE stopComponents(_, _)
stopComponents(i, stopAt) ==
    IF i < 1 \/ Components[i] = stopAt THEN <<>>
    ELSE <<Components[i]>> \o stopComponents(i - 1, stopAt)

\* Start, lifecycle.go:58-66: rejected while starting or running.
LmStartBegin ==
    /\ lmOp = "none"
    /\ IF lmStatus \in {"starting", "running"}
       THEN /\ lmDone' = [op |-> "start", err |-> TRUE]
            /\ lmCalls' = <<>>
            /\ UNCHANGED <<lmStatus, lmOp, lmIdx>>
       ELSE /\ lmStatus' = "starting"
            /\ lmOp' = "start"
            /\ lmIdx' = 1
            /\ lmCalls' = <<>>
            /\ UNCHANGED lmDone
    /\ stopCall' = IF stopCall = "returned" THEN "none" ELSE stopCall
    /\ UNCHANGED <<compUp, unhealthy, lmHealth, detectorVars, healthVars, controllerVars, stopIdx>>

\* Start, lifecycle.go:71-86: the next component is started; when that
\* fails, stopComponents runs, the status becomes error and Start returns.
LmStartComponent ==
    /\ lmOp = "start"
    /\ lmIdx <= Len(Components)
    /\ LET component == Components[lmIdx]
       IN  \E err \in BOOLEAN :
             /\ err => component \in StartCanFail
             /\ IF err
                THEN LET stopped == stopComponents(Len(Components), component)
                     IN  /\ lmCalls' = lmCalls \o <<<<"start", component>>>>
                                \o [k \in 1..Len(stopped) |-> <<"stop", stopped[k]>>]
                         /\ compUp' = [c \in ComponentSet |->
                                IF \E k \in 1..Len(stopped) : stopped[k] = c
                                THEN FALSE ELSE compUp[c]]
                         /\ lmStatus' = "error"
                         /\ lmOp' = "none"
                         /\ lmDone' = [op |-> "start", err |-> TRUE]
                         /\ UNCHANGED lmIdx
                ELSE /\ lmCalls' = Append(lmCalls, <<"start", component>>)
                     /\ compUp' = [compUp EXCEPT ![component] = TRUE]
                     /\ lmIdx' = lmIdx + 1
                     /\ UNCHANGED <<lmStatus, lmOp, lmDone>>
    /\ UNCHANGED <<unhealthy, lmHealth, detectorVars, healthVars, controllerVars, stopCall, stopIdx>>

\* Start, lifecycle.go:88-92
LmStartFinish ==
    /\ lmOp = "start"
    /\ lmIdx > Len(Components)
    /\ lmStatus' = "running"
    /\ lmOp' = "none"
    /\ lmDone' = [op |-> "start", err |-> FALSE]
    /\ UNCHANGED <<lmIdx, lmCalls, compUp, unhealthy, lmHealth, detectorVars, healthVars,
                   controllerVars, stopCall, stopIdx>>

\* Stop, lifecycle.go:96-103: rejected while stopping or stopped.
LmStopBegin ==
    /\ lmOp = "none"
    /\ IF lmStatus \in {"stopping", "stopped"}
       THEN /\ lmDone' = [op |-> "stop", err |-> TRUE]
            /\ lmCalls' = <<>>
            /\ UNCHANGED <<lmStatus, lmOp, lmIdx>>
       ELSE /\ lmStatus' = "stopping"
            /\ lmOp' = "stop"
            /\ lmIdx' = Len(Components)
            /\ lmCalls' = <<>>
            /\ UNCHANGED lmDone
    /\ UNCHANGED <<compUp, unhealthy, lmHealth, detectorVars, healthVars, controllerVars, stopCall, stopIdx>>

\* The components stopped from the first on.
LmStopComponent_Forward ==
    /\ lmOp = "stop"
    /\ lmIdx >= 1
    /\ LET component == Components[Len(Components) - lmIdx + 1]
       IN  /\ lmCalls' = Append(lmCalls, <<"stop", component>>)
           /\ compUp' = [compUp EXCEPT ![component] = FALSE]
    /\ lmIdx' = lmIdx - 1
    /\ UNCHANGED <<lmStatus, lmOp, lmDone, unhealthy, lmHealth, detectorVars, healthVars,
                   controllerVars, stopCall, stopIdx>>

\* Stop, lifecycle.go:108-120: the next component, from the last back, is
\* stopped; an error of its Stop is logged and the loop goes on.
LmStopComponent ==
    /\ lmOp = "stop"
    /\ lmIdx >= 1
    /\ LET component == Components[lmIdx]
       IN  /\ lmCalls' = Append(lmCalls, <<"stop", component>>)
           /\ compUp' = [compUp EXCEPT ![component] = FALSE]
    /\ lmIdx' = lmIdx - 1
    /\ UNCHANGED <<lmStatus, lmOp, lmDone, unhealthy, lmHealth, detectorVars, healthVars,
                   controllerVars, stopCall, stopIdx>>

\* Stop, lifecycle.go:122-125
LmStopFinish ==
    /\ lmOp = "stop"
    /\ lmIdx < 1
    /\ lmStatus' = "stopped"
    /\ lmOp' = "none"
    /\ lmDone' = [op |-> "stop", err |-> FALSE]
    /\ UNCHANGED <<lmIdx, lmCalls, compUp, unhealthy, lmHealth, detectorVars, healthVars,
                   controllerVars, stopCall, stopIdx>>

\* Health, lifecycle.go:129-149
LmHealth ==
    /\ lmOp = "none"
    /\ lmHealth' = IF lmStatus # "running" THEN "error"
                   ELSE IF unhealthy # {} THEN "error"
                   ELSE "nil"
    /\ UNCHANGED <<lmStatus, lmOp, lmIdx, lmCalls, lmDone, compUp, unhealthy,
                   detectorVars, healthVars, controllerVars, stopCall, stopIdx>>

\* A component turns unhealthy or healthy again.
HealthChange(c) ==
    /\ unhealthy' = IF c \in unhealthy THEN unhealthy \ {c}
                    ELSE unhealthy \cup {c}
    /\ lmHealth' = "none"
    /\ UNCHANGED <<lmStatus, lmOp, lmIdx, lmCalls, lmDone, compUp,
                   detectorVars, healthVars, controllerVars, stopCall, stopIdx>>

ManagerNext ==
    \/ LmStartBegin
    \/ LmStartComponent
    \/ LmStartFinish
    \/ LmStopBegin
    \/ LmStopComponent
    \/ LmStopFinish
    \/ LmHealth
    \/ \E c \in HealthCanFail : HealthChange(c)

ManagerSpec == Init /\ [][ManagerNext]_vars

\* Stop called by another goroutine while a Start is starting components,
\* lifecycle.go:96-103: the status is tested and set under the mutex, which
\* Start has released before its loop (lifecycle.go:59-66).
OtherStopBegin ==
    /\ lmOp = "start"
    /\ stopCall = "none"
    /\ IF lmStatus \in {"stopping", "stopped"}
       THEN /\ stopCall' = "returned"
            /\ UNCHANGED <<lmStatus, stopIdx>>
       ELSE /\ lmStatus' = "stopping"
            /\ stopCall' = "running"
            /\ stopIdx' = Len(Components)
    /\ UNCHANGED <<lmOp, lmIdx, lmCalls, lmDone, compUp, unhealthy, lmHealth,
                   detectorVars, healthVars, controllerVars>>

\* That Stop, lifecycle.go:108-120: the next component, from the last back,
\* is stopped, whether it has been started or not.
OtherStopComponent ==
    /\ stopCall = "running"
    /\ stopIdx >= 1
    /\ compUp' = [compUp EXCEPT ![Components[stopIdx]] = FALSE]
    /\ stopIdx' = stopIdx - 1
    /\ UNCHANGED <<lmStatus, lmOp, lmIdx, lmCalls, lmDone, unhealthy, lmHealth,
                   stopCall, detectorVars, healthVars, controllerVars>>

\* That Stop, lifecycle.go:122-125
OtherStopFinish ==
    /\ stopCall = "running"
    /\ stopIdx < 1
    /\ lmStatus' = "stopped"
    /\ stopCall' = "returned"
    /\ UNCHANGED <<lmOp, lmIdx, lmCalls, lmDone, compUp, unhealthy, lmHealth,
                   stopIdx, detectorVars, healthVars, controllerVars>>

\* The lifecycle manager with Start called by one goroutine and Stop by
\* another while the Start is under way.
OverlapNext ==
    \/ LmStartBegin
    \/ LmStartComponent
    \/ LmStartFinish
    \/ OtherStopBegin
    \/ OtherStopComponent
    \/ OtherStopFinish
    \/ LmHealth
    \/ \E c \in HealthCanFail : HealthChange(c)

OverlapSpec == Init /\ [][OverlapNext]_vars

(* -------------------------- the health service ------------------------- *)

\* The statuses a Check may return: the three constants of part_005:17-21
\* and, Status being a string, any other text.
Statuses == {"healthy", "unhealthy", "degraded", "unknown"}

\* RegisterComponent, part_005:54-59
RegisterComponent(c) ==
    /\ hsComponents' = hsComponents \cup {c}
    /\ hsOverall' = "none"
    /\ hsResponse' = NoResponse
    /\ UNCHANGED <<checkStatus, detectorVars, managerVars, controllerVars>>

\* What a registered checker reports changes.
CheckerChange(c, status) ==
    /\ checkStatus[c] # status
    /\ checkStatus' = [checkStatus EXCEPT ![c] = status]
    /\ hsOverall' = "none"
    /\ hsResponse' = NoResponse
    /\ UNCHANGED <<hsComponents, detectorVars, managerVars, controllerVars>>

\* CheckAll, part_005:62-80: the status of every registered component
CheckAll == [c \in hsComponents |-> checkStatus[c]]

\* GetOverallStatus, part_005:83-105
OverallStatus ==
    LET components == CheckAll
        unhealthyCount ==
            Cardinality({c \in DOMAIN components : components[c] = "unhealthy"})
        degradedCount ==
            Cardinality({c \in DOMAIN components : components[c] = "degraded"})
    IN  IF unhealthyCount > 0 THEN "unhealthy"
        ELSE IF degradedCount > 0 THEN "degraded"
        ELSE "healthy"

\* A degraded service answered as unavailable.
HttpStatus_DegradedUnavailable(status) ==
    IF status = "healthy" THEN 200 ELSE 503

\* ServeHTTP, part_005:123-131: the HTTP status code of a status
HttpStatus(status) ==
    IF status = "healthy" THEN 200
    ELSE IF status = "degraded" THEN 200
    ELSE IF status = "unhealthy" THEN 503
    ELSE 0

\* A caller asks for the overall status.
GetOverallStatus ==
    /\ hsOverall' = OverallStatus
    /\ UNCHANGED <<hsComponents, checkStatus, hsResponse, detectorVars,
                   managerVars, controllerVars>>

\* ServeHTTP, part_005:108-157, for a request whose query parameter
\* readiness has the given value ("" when absent).
ServeHTTP(readiness) ==
    /\ LET isReadiness == readiness = "true"
           status == IF isReadiness THEN OverallStatus ELSE "healthy"
       IN  hsResponse' = [readiness |-> isReadiness,
                          status |-> status,
                          code |-> HttpStatus(status)]
    /\ UNCHANGED <<hsComponents, checkStatus, hsOverall, detectorVars,
                   managerVars, controllerVars>>

HealthNext ==
    \/ \E c \in Checkers : RegisterComponent(c)
    \/ \E c \in Checkers : \E status \in Statuses : CheckerChange(c, status)
    \/ GetOverallStatus
    \/ \E readiness \in {"true", "false", ""} : ServeHTTP(readiness)

HealthSpec == Init /\ [][HealthNext]_vars

(* ------------------------------ claims -------------------------------- *)

Deployment == "Deployment:ns:app"

\* the resource thread t is evaluating
Target(t) == CurrentID(t)

\* Thread t performs its upsert in this step.
Writes(t) == pc[t] = "update" /\ pc'[t] # "update"

\* The record thread t read as prior record, in analyzeSingleResource and
\* again in SaveDriftRecord, is the one the store holds when t upserts: no
\* other write to the resource_id came in between.
Uninterleaved(t) ==
    /\ existing[t] = store[Target(t)]
    /\ dbExisting[t] = store[Target(t)]

\* Thread t upserts the evaluation of a resource whose prior record it read
\* and which is still the stored one.
Evaluates(t) == Writes(t) /\ Uninterleaved(t)

\* a time of the pass of thread t: from its beginning to now
InPass(t, time) == passStart[t] <= time /\ time <= clock /\ time # Null

\* C1: in every stored drift record, after any passes (overlapping ones
\* included), drift_detected is true if and only if drift_status is active.
C1_DetectedIffActive ==
    \A r \in RecordIDs :
        store[r] # NoRecord =>
            (store[r].drift_detected <=> store[r].drift_status = "active")

C1_Witness ==
    /\ store[Deployment].drift_status = "resolved"
    /\ ~store[Deployment].drift_detected
    /\ \E t \in Runners : pc[t] = "update" /\ rec[t].DriftDetected

\* C2: a pass that evaluates a resource whose prior record is active and
\* whose diff reports no drift stores it as resolved, with drift_detected
\* false, resolved_at a time of that pass, the fixed resolution message, and
\* first_detected as in the prior record.
C2_ActiveToResolved ==
    [][\A t \in Runners :
         (Evaluates(t) /\ store[Target(t)].drift_status = "active"
                       /\ ~rec[t].DriftDetected)
         => LET old == store[Target(t)]
                new == store'[Target(t)]
            IN  /\ new.drift_status = "resolved"
                /\ new.drift_detected = FALSE
                /\ InPass(t, new.resolved_at)
                /\ new.resolution_message = ResolutionMessage
                /\ new.first_detected = old.first_detected
                /\ new.first_detected # Null]_vars

C2_Witness ==
    /\ store[Deployment].drift_status = "resolved"
    /\ store[Deployment].resolution_message = ResolutionMessage
    /\ store[Deployment].first_detected # Null
    /\ store[Deployment].resolved_at > store[Deployment].first_detected
    /\ \A t \in Runners : pc[t] \in {"select", "idle", "unborn"}

\* C3 (as claimed): a pass that evaluates a resource whose prior record is
\* resolved and whose diff again reports no drift leaves it resolved, with
\* first_detected and resolved_at untouched.
C3_ResolvedStaysResolved ==
    [][\A t \in Runners :
         (Evaluates(t) /\ store[Target(t)].drift_status = "resolved"
                       /\ ~rec[t].DriftDetected)
         => LET old == store[Target(t)]
                new == store'[Target(t)]
            IN  /\ new.drift_status = "resolved"
                /\ new.first_detected = old.first_detected
                /\ new.resolved_at = old.resolved_at]_vars

\* C4: first_detected is set, to a time of the pass, exactly by a pass that
\* finds changes when the prior record is absent, none or resolved; a pass
\* that finds changes on an active record leaves it as it is, and a pass
\* that finds none does not touch it.
C4_FirstDetectedPerEpisode ==
    [][\A t \in Runners :
         Evaluates(t)
         => LET old == store[Target(t)]
                new == store'[Target(t)]
            IN  /\ (rec[t].DriftDetected /\ old.drift_status # "active")
                       => InPass(t, new.first_detected)
                /\ (rec[t].DriftDetected /\ old.drift_status = "active")
                       => /\ new.first_detected = old.first_detected
                          /\ new.first_detected # Null
                          /\ new.drift_status = "active"
                /\ ~rec[t].DriftDetected
                       => new.first_detected = old.first_detected]_vars

\* a pass is about to store "still active" for an episode begun by an
\* earlier pass
C4_Witness ==
    \E t \in Runners :
        /\ pc[t] = "update"
        /\ Uninterleaved(t)
        /\ store[Target(t)].drift_status = "active"
        /\ rec[t].DriftDetected
        /\ rec[t].FirstDetected = store[Target(t)].first_detected
        /\ rec[t].FirstDetected < passStart[t]

\* C5: the stored resolved_at changes only in a pass that takes the record
\* from active to resolved; a resolved record that re-enters active gets a
\* first_detected of that pass and keeps its resolved_at.
C5_ResolvedAtOnlyOnResolution ==
    [][\A t \in Runners :
         Evaluates(t)
         => LET old == store[Target(t)]
                new == store'[Target(t)]
            IN  /\ new.resolved_at # old.resolved_at
                       => /\ old.drift_status = "active"
                          /\ new.drift_status = "resolved"
                /\ (old.drift_status = "resolved" /\ rec[t].DriftDetected)
                       => /\ new.drift_status = "active"
                          /\ InPass(t, new.first_detected)
                          /\ new.resolved_at = old.resolved_at
                          /\ new.resolved_at # Null]_vars

C5_Witness ==
    /\ store[Deployment].drift_status = "active"
    /\ store[Deployment].resolved_at # Null
    /\ store[Deployment].first_detected > store[Deployment].resolved_at

\* C6 (as claimed): a pass that evaluates a resource whose prior record is
\* absent or none and whose diff reports no drift stores a record with
\* drift_status none, drift_detected false, no drift_details and null
\* first_detected and resolved_at.
C6_CleanRecord ==
    [][\A t \in Runners :
         (Evaluates(t) /\ store[Target(t)].drift_status \in {"nil", "none"}
                       /\ ~rec[t].DriftDetected)
         => LET new == store'[Target(t)]
            IN  /\ new.drift_status = "none"
                /\ new.drift_detected = FALSE
                /\ new.drift_details = <<>>
                /\ new.first_detected = Null
                /\ new.resolved_at = Null]_vars

\* C7 (as claimed): the pass that takes a record from active to resolved
\* leaves in drift_details the change list of the episode, and stores
\* drift_detected false.
C7_ResolvedKeepsDetails ==
    [][\A t \in Runners :
         (Evaluates(t) /\ store[Target(t)].drift_status = "active"
                       /\ ~rec[t].DriftDetected)
         => LET old == store[Target(t)]
                new == store'[Target(t)]
            IN  /\ new.drift_details = old.drift_details
                /\ new.drift_details # <<>>
                /\ new.drift_detected = FALSE]_vars

\* Thread t is between its read of the prior record of a resource and its
\* upsert of that resource.
InReadDecideUpsert(t) == pc[t] \in {"save", "update"}

\* C8 (as claimed): no two passes are at once between the read of the prior
\* record and the upsert of the same resource_id.
C8_SingleWriterPerResource ==
    \A t1, t2 \in Runners :
        (t1 # t2 /\ InReadDecideUpsert(t1) /\ InReadDecideUpsert(t2))
            => Target(t1) # Target(t2)

\* A Stop call has returned and no Start has completed since: the channel is
\* closed, isRunning is false, no caller is inside Start or Stop.
StopReturned ==
    /\ stopCh = "closed"
    /\ ~isRunning
    /\ \A c \in Callers : pc[c] = "idle"

\* Thread t goes on to a further resource or (namespace, kind) pair.
TakesUpNext(t) ==
    \/ pc[t] = "list" /\ pc'[t] # "list"
    \/ pc[t] = "analyze" /\ pc'[t] # "analyze"

\* C9 (as claimed): once Stop has returned, a pass in flight finishes at most
\* the resource it is evaluating: no thread lists a further pair or takes up
\* a further resource.
C9_NoEvaluationAfterStop ==
    [][StopReturned => \A t \in Runners : ~TakesUpNext(t)]_vars

\* C10 (as claimed): at most one runDriftAnalysis goroutine exists at any
\* time, also when Start calls overlap.
C10_AtMostOneLoop ==
    Cardinality({g \in Loops : pc[g] # "unborn"}) <= 1

\* the changes of a change list, whatever their order
ChangeSet(changes) == {changes[i] : i \in 1..Len(changes)}

\* Two documents with the same content, the order of drift_details aside.
SameContent(d1, d2) ==
    /\ [d1 EXCEPT !.drift_details = <<>>] = [d2 EXCEPT !.drift_details = <<>>]
    /\ ChangeSet(d1.drift_details) = ChangeSet(d2.drift_details)

\* C11 (as claimed): a pass that evaluates a resource whose live state and
\* desired state are those its record was written from stores the record
\* with the content it had (last_updated, which the records here leave
\* out, aside), whatever the status of the record.
C11_RerunIsNoOp ==
    [][\A t \in Runners :
         (Evaluates(t) /\ store[Target(t)] # NoRecord
                       /\ rec[t].LiveState = store[Target(t)].live_state
                       /\ rec[t].DesiredState = store[Target(t)].desired_state)
         => SameContent(store'[Target(t)], store[Target(t)])]_vars

\* The read of the prior record by thread t failed, and not because there
\* is no record.
ReadFailed(t) == getErr[t] \notin {"nil", ErrNoDocuments}

\* C12 (as claimed): a thread whose read of the prior record failed with an
\* error other than not-found performs no upsert for the resource: the
\* record the store holds stays as it is.
C12_ReadErrorSkips ==
    [][\A t \in Runners :
         (ReadFailed(t) /\ pc[t] = "update" /\ store[Target(t)] # NoRecord)
         => store'[Target(t)] = store[Target(t)]]_vars

\* C13: a pass whose Pull failed ends there: the thread goes back to where
\* it rests without having listed or evaluated anything and the store is
\* as it was; the error is not kept, so the next tick pulls afresh.
C13_PullFailureAborts ==
    [][\A t \in Runners :
         (pc[t] = "pulled" /\ pullErr[t] /\ pc'[t] # "pulled")
         => /\ pc'[t] = Rest(t)
            /\ listed'[t] = <<>>
            /\ store' = store
            /\ ~pullErr'[t]]_vars

\* a pull has failed after a pass that stored a record
C13_Witness ==
    \E t \in Loops :
        /\ pc[t] = "pulled"
        /\ pullErr[t]
        /\ store[Deployment] # NoRecord

ConfigMap == "ConfigMap:ns:defaults"

\* Thread t gets the answer of ListResources in this step.
Lists(t) ==
    pc[t] = "list" /\ (pc'[t] # "list" \/ pairIdx'[t] # pairIdx[t])

\* C14: when the listing of a (namespace, kind) pair fails the pass goes on
\* to the next pair, if there is one, and lists it; nothing is written for
\* the failing pair.
C14_ListFailureContinues ==
    [][\A t \in Runners :
         (Lists(t) /\ apiDown)
         => /\ store' = store
            /\ listed'[t] = <<>>
            /\ IF pairIdx[t] < Len(Kinds)
               THEN pc'[t] = "list" /\ pairIdx'[t] = pairIdx[t] + 1
               ELSE pc'[t] = Rest(t)]_vars

\* The listing of the Deployments failed and the pass has gone on to store
\* a record for the ConfigMap.
C14_Witness ==
    /\ store[Deployment] = NoRecord
    /\ store[ConfigMap] # NoRecord
    /\ store[ConfigMap].id = 1

\* C15: the collection holds at most one document per resource_id, also
\* after overlapping passes that evaluate the same resource.
C15_OneRecordPerResource ==
    \A r \in RecordIDs :
        /\ copies[r] <= 1
        /\ copies[r] = 0 <=> store[r] = NoRecord

\* A pass that found no record when it read is about to upsert a resource
\* for which another pass has inserted one since.
C15_Witness ==
    \E t \in Runners :
        /\ pc[t] = "update"
        /\ dbExisting[t] = NoRecord
        /\ copies[Target(t)] = 1
        /\ store[Target(t)].id # rec[t].ID

\* C16: the id and created_at a record got when it was inserted, those of
\* the candidate record of that pass, stay with it through every later
\* upsert, whose candidates carry other ids.
C16_IdentityStable ==
    [][\A r \in RecordIDs :
         /\ store[r] # NoRecord
                => /\ store'[r].id = store[r].id
                   /\ store'[r].created_at = store[r].created_at
         /\ (store[r] = NoRecord /\ store'[r] # NoRecord)
                => \E t \in Runners :
                      /\ Writes(t)
                      /\ store'[r].id = rec[t].ID
                      /\ store'[r].created_at = rec[t].CreatedAt
                      /\ rec[t].ID # Null]_vars

\* A record inserted by the first pass has since been resolved and become
\* active again, by passes whose candidates had other ids.
C16_Witness ==
    /\ store[Deployment].id = 1
    /\ store[Deployment].drift_status = "active"
    /\ store[Deployment].resolved_at > store[Deployment].created_at
    /\ store[Deployment].first_detected > store[Deployment].resolved_at

\* C17: the record of a live resource Git has no document for says
\* drift_detected false, has no desired_state and has the live_state that
\* was listed; such a resource is never active, so its status is none.
C17_UndeclaredIsNotDrift ==
    \A r \in Resources :
        (GitTree[r] = NoManifest /\ store[r] # NoRecord)
        => /\ store[r].drift_detected = FALSE
           /\ store[r].drift_details = <<>>
           /\ store[r].desired_state = NoManifest
           /\ store[r].live_state \in LiveManifests(r)
           /\ store[r].drift_status = "none"

C17_Witness ==
    /\ store[ConfigMap].drift_status = "none"
    /\ store[ConfigMap].desired_state = NoManifest
    /\ store[ConfigMap].live_state = InSync
    /\ store[Deployment].drift_status = "active"

\* Thread t is done with the live resource it is at in this step.
Analyzes(t) ==
    pc[t] = "analyze" /\ (pc'[t] # "analyze" \/ resIdx'[t] # resIdx[t])

\* C18: a live resource without a metadata mapping, or without a non-empty
\* metadata.name, is passed over: the store stays as it is, and the pass
\* goes on to the next resource of the listing, if there is one.
C18_MalformedIsSkipped ==
    [][\A t \in Runners :
         (Analyzes(t) /\ (~listed[t][resIdx[t]].metadata
                            \/ listed[t][resIdx[t]].name = ""))
         => /\ store' = store
            /\ rec'[t] = rec[t]
            /\ IF resIdx[t] < Len(listed[t])
               THEN /\ pc'[t] = "analyze"
                    /\ resIdx'[t] = resIdx[t] + 1
                    /\ listed'[t] = listed[t]
               ELSE pc'[t] \in {"list", Rest(t)}]_vars

\* A pass has passed over a malformed object and is about to store the
\* record of the resource listed after it.
C18_Witness ==
    \E t \in Runners :
        /\ pc[t] = "update"
        /\ resIdx[t] = 2
        /\ listed[t][1].name = ""
        /\ Target(t) = ConfigMap
        /\ store[ResourceID("ConfigMap", Namespace, "")] = NoRecord

\* Thread t has resource r in its listing, still to be evaluated or being
\* evaluated.
Holds(t, r) ==
    /\ pc[t] \in {"analyze", "save", "update"}
    /\ \E k \in resIdx[t]..Len(listed[t]) :
          ResourceID(Kinds[pairIdx[t]], Namespace, listed[t][k].name) = r

\* C19: no step removes a record, and the record of a resource the cluster
\* no longer holds is left as it is by every pass that listed its pair
\* without it.
C19_RecordsAreRetained ==
    [][\A r \in Resources :
         /\ store[r] # NoRecord => store'[r] # NoRecord
         /\ copies'[r] >= copies[r]
         /\ (live[r] = NoManifest /\ \A t \in Runners : ~Holds(t, r))
                => store'[r] = store[r]]_vars

\* The Deployment is gone with its record resolved, and a later pass has
\* gone past the Deployments without turning the record into none.
C19_Witness ==
    \E t \in Runners :
        /\ live[Deployment] = NoManifest
        /\ store[Deployment].drift_status = "resolved"
        /\ pc[t] = "list"
        /\ pairIdx[t] = 2
        /\ passStart[t] > store[Deployment].resolved_at

\* C20 (as claimed): a run of DetectDrift on the live and desired state a
\* record was written from returns the change list of that record, the
\* order of the changes included.
C20_SameInputsSameChanges ==
    [][\A t \in Runners :
         (/\ pc[t] = "analyze"
          /\ pc'[t] = "save"
          /\ store[Target(t)] # NoRecord
          /\ store[Target(t)].drift_detected
          /\ rec'[t].LiveState = store[Target(t)].live_state
          /\ rec'[t].DesiredState = store[Target(t)].desired_state)
            => rec'[t].DriftDetails = store[Target(t)].drift_details]_vars

\* the manifest with the one value v at spec.<key>
SpecWith(key, v) == Map("spec" :> Map(key :> v))

\* C21 (as claimed): the change emitted for a number that differs between
\* the live and the desired manifest carries the live value in From and the
\* desired value in To; live replicas 3 against Git replicas 2 gives exactly
\* one change, of spec.replicas, from 3 to 2.
C21_FromLiveToDesired ==
    driftResult.returned =>
    \A k \in ReplicaKeys : \A l, d \in Numbers :
        (/\ liveState = SpecWith(k, l)
         /\ desiredState = SpecWith(k, d)
         /\ l # d)
            => /\ Len(driftResult.Changes) = 1
               /\ driftResult.Changes[1].Field = "spec." \o k
               /\ driftResult.Changes[1].From = l
               /\ driftResult.Changes[1].To = d

\* C22: DetectDrift on a manifest against itself returns Detected false
\* and no change, whatever mappings, sequences and scalars the manifest is
\* built from.
C22_SelfDiffIsEmpty ==
    (driftResult.returned /\ liveState = desiredState)
        => ~driftResult.Detected /\ driftResult.Changes = <<>>

\* DetectDrift has returned for a manifest with a sequence of a number and
\* a mapping, given as both the live and the desired state.
C22_Witness ==
    /\ driftResult.returned
    /\ liveState = desiredState
    /\ liveState = Map("spec" :> Slice(<<Int64(2),
                                         Map("image" :> String("nginx"))>>))

\* C23: in every stored record last_known_good_hash is the hash of the
\* record's desired_state, and empty when the desired state is null; two
\* records with equal desired states carry equal hashes.
C23_HashOfDesiredState ==
    /\ \A r \in RecordIDs :
          store[r] # NoRecord =>
              store[r].last_known_good_hash =
                  IF store[r].desired_state = NoManifest
                  THEN ""
                  ELSE generateHash(store[r].desired_state)
    /\ \A r1, r2 \in RecordIDs :
          (/\ store[r1] # NoRecord
           /\ store[r2] # NoRecord
           /\ store[r1].desired_state = store[r2].desired_state)
              => store[r1].last_known_good_hash = store[r2].last_known_good_hash

\* A record written from a live state that differs from the desired state
\* it carries the hash of, next to a record with no desired state.
C23_Witness ==
    /\ store[Deployment].desired_state # NoManifest
    /\ store[Deployment].live_state # store[Deployment].desired_state
    /\ store[Deployment].last_known_good_hash # ""
    /\ store[ConfigMap] # NoRecord
    /\ store[ConfigMap].desired_state = NoManifest

\* the calls of a Start or Stop that went through all the components
StartsInOrder == [k \in 1..Len(Components) |-> <<"start", Components[k]>>]
StopsInReverse ==
    [k \in 1..Len(Components) |-> <<"stop", Components[Len(Components) - k + 1]>>]

\* the place of a call among the calls made
Place(calls, call) == CHOOSE k \in 1..Len(calls) : calls[k] = call

\* C24: a Start that returns without error has started the components in
\* registration order and leaves the status running; Health then returns
\* without error exactly when the status is running and every component is
\* healthy; a Stop that returns without error has stopped the components
\* in reverse registration order, the drift controller before the
\* database, and leaves the status stopped.
C24_StartInOrderStopInReverse ==
    [][/\ (lmOp # "none" /\ lmOp' = "none" /\ lmDone' = [op |-> "start", err |-> FALSE])
            => /\ lmCalls' = StartsInOrder
               /\ lmStatus' = "running"
               /\ \A c \in ComponentSet : compUp'[c]
       /\ (lmHealth' # lmHealth /\ lmHealth' # "none")
            => (lmHealth' = "nil" <=> (lmStatus = "running" /\ unhealthy = {}))
       /\ (lmOp # "none" /\ lmOp' = "none" /\ lmDone' = [op |-> "stop", err |-> FALSE])
            => /\ lmCalls' = StopsInReverse
               /\ Place(lmCalls', <<"stop", "drift-controller">>)
                    < Place(lmCalls', <<"stop", "database">>)
               /\ lmStatus' = "stopped"
               /\ \A c \in ComponentSet : ~compUp'[c]]_vars

\* Start has returned without error, Health has succeeded, and Stop has
\* then returned without error.
C24_Witness ==
    /\ lmOp = "none"
    /\ lmDone = [op |-> "stop", err |-> FALSE]
    /\ lmHealth = "nil"
    /\ Len(lmCalls) = Len(Components)
    /\ lmStatus = "stopped"

\* some registered component reports the status
Reports(status) == \E c \in hsComponents : checkStatus[c] = status

\* C25: GetOverallStatus returns unhealthy exactly when a registered
\* component reports unhealthy, otherwise degraded exactly when one reports
\* degraded, otherwise healthy; the readiness probe answers 503 exactly
\* when the overall status is unhealthy and 200 otherwise, the liveness
\* probe always answers 200.
C25_OverallStatusAndProbes ==
    /\ hsOverall # "none" =>
          /\ hsOverall = "unhealthy" <=> Reports("unhealthy")
          /\ hsOverall = "degraded"
                <=> (~Reports("unhealthy") /\ Reports("degraded"))
          /\ hsOverall = "healthy"
                <=> (~Reports("unhealthy") /\ ~Reports("degraded"))
    /\ (hsResponse # NoResponse /\ hsResponse.readiness) =>
          /\ hsResponse.code = 503 <=> Reports("unhealthy")
          /\ hsResponse.code = 200 <=> ~Reports("unhealthy")
    /\ (hsResponse # NoResponse /\ ~hsResponse.readiness) =>
          hsResponse.code = 200

\* With a healthy and a degraded component registered, the overall status
\* has been asked for and the readiness probe has answered.
C25_Witness ==
    /\ hsComponents = Checkers
    /\ Reports("degraded")
    /\ ~Reports("unhealthy")
    /\ hsOverall = "degraded"
    /\ hsResponse.readiness
    /\ hsResponse.code = 200

\* text s begins with text prefix
HasPrefix(s, prefix) ==
    Len(s) >= Len(prefix) /\ SubSeq(s, 1, Len(prefix)) = prefix

\* field is the path p or a path below it
Under(field, p) ==
    field = p \/ HasPrefix(field, p \o ".") \/ HasPrefix(field, p \o "[")

\* the changes at the path p or below it
ChangesUnder(p) ==
    {i \in 1..Len(driftResult.Changes) : Under(driftResult.Changes[i].Field, p)}

\* The rule for the mappings liveV and desired met at path: a key of desired
\* that liveV lacks has exactly one change at or below its path, a
\* MissingField of severity high at the path itself; a key of liveV that
\* desired lacks has none.
MappingRule(path, liveV, desired) ==
    \A key \in DOMAIN liveV.map \cup DOMAIN desired.map :
        LET p == IF path # "" THEN path \o "." \o key ELSE key
        IN  /\ key \notin DOMAIN liveV.map =>
                 /\ Cardinality(ChangesUnder(p)) = 1
                 /\ \A i \in ChangesUnder(p) :
                       /\ driftResult.Changes[i].Field = p
                       /\ driftResult.Changes[i].Type = "MissingField"
                       /\ driftResult.Changes[i].Severity = "high"
            /\ key \notin DOMAIN desired.map => ChangesUnder(p) = {}

\* both states have a mapping at the key spec
BothHaveSpecMapping ==
    /\ "spec" \in DOMAIN liveState.map
    /\ "spec" \in DOMAIN desiredState.map
    /\ TypeOf(liveState.map["spec"]) = "map"
    /\ TypeOf(desiredState.map["spec"]) = "map"

\* C26: the walk of two mappings emits exactly one MissingField (high) at
\* the path of a desired key the live mapping lacks and nothing below it,
\* descends into a key both have, and emits nothing for a key only the live
\* mapping has; an empty desired mapping gives no change and an empty live
\* mapping one MissingField per top-level desired key.
C26_MappingRule ==
    (driftResult.returned /\ liveState \in StructuredManifests) =>
        /\ MappingRule("", liveState, desiredState)
        /\ BothHaveSpecMapping =>
              MappingRule("spec", liveState.map["spec"], desiredState.map["spec"])
        /\ DOMAIN desiredState.map = {} => driftResult.Changes = <<>>
        /\ DOMAIN liveState.map = {} =>
              /\ Len(driftResult.Changes) = Cardinality(DOMAIN desiredState.map)
              /\ \A i \in 1..Len(driftResult.Changes) :
                    driftResult.Changes[i].Type = "MissingField"

\* DetectDrift has returned for a live manifest that lacks spec.replicas
\* of the desired one and has a top-level key the desired one lacks.
C26_Witness ==
    /\ driftResult.returned
    /\ liveState = Map("spec" :> Map("image" :> String("nginx"))
                           @@ "replicas" :> Int64(2))
    /\ desiredState = Map("spec" :> Map("image" :> String("nginx")
                                            @@ "replicas" :> Int64(3)))
    /\ Len(driftResult.Changes) = 1
    /\ driftResult.Changes[1].Field = "spec.replicas"

\* C27: when the live and the desired value at spec have different dynamic
\* types (a mapping, a sequence, scalars of different kinds, null against
\* non-null) the walk emits exactly one change at spec, a TypeChange of
\* severity medium, and nothing below spec.
C27_TypeMismatch ==
    (/\ driftResult.returned
     /\ liveState \in StructuredManifests
     /\ "spec" \in DOMAIN liveState.map
     /\ "spec" \in DOMAIN desiredState.map
     /\ liveState.map["spec"].type # desiredState.map["spec"].type)
        => /\ Cardinality(ChangesUnder("spec")) = 1
           /\ \A i \in ChangesUnder("spec") :
                 /\ driftResult.Changes[i].Field = "spec"
                 /\ driftResult.Changes[i].Type = "TypeChange"
                 /\ driftResult.Changes[i].Severity = "medium"

\* DetectDrift has returned for a live sequence with a mapping in it
\* against a desired mapping with two keys at spec.
C27_Witness ==
    /\ driftResult.returned
    /\ liveState = Map("spec" :> Slice(<<Map("image" :> String("nginx"))>>))
    /\ desiredState = Map("spec" :> Map("image" :> String("nginx")
                                            @@ "replicas" :> Int64(3)))
    /\ Len(driftResult.Changes) = 1

\* both states have a sequence at the key spec
BothHaveSpecSequence ==
    /\ "spec" \in DOMAIN liveState.map
    /\ "spec" \in DOMAIN desiredState.map
    /\ liveState.map["spec"].type = "slice"
    /\ desiredState.map["spec"].type = "slice"

\* the changes at the path p itself
ChangesAt(p) ==
    {i \in 1..Len(driftResult.Changes) : driftResult.Changes[i].Field = p}

\* The rule for the sequences liveQ and desiredQ met at path.
SequenceRule(path, liveQ, desiredQ) ==
    LET maxLen == IF Len(liveQ) > Len(desiredQ) THEN Len(liveQ) ELSE Len(desiredQ)
        At(i) == path \o "[" \o Itoa(i) \o "]"
    IN  /\ IF Len(liveQ) # Len(desiredQ)
           THEN /\ Cardinality(ChangesAt(path)) = 1
                /\ \A i \in ChangesAt(path) :
                      /\ driftResult.Changes[i].Type = "ArrayLength"
                      /\ driftResult.Changes[i].Severity = "medium"
                      /\ \A j \in ChangesUnder(path) : i <= j
           ELSE ChangesAt(path) = {}
        /\ \A i \in 0..(maxLen - 1) :
              IF i >= Len(liveQ)
              THEN /\ Cardinality(ChangesUnder(At(i))) = 1
                   /\ \A j \in ChangesUnder(At(i)) :
                         /\ driftResult.Changes[j].Field = At(i)
                         /\ driftResult.Changes[j].Type = "MissingElement"
                         /\ driftResult.Changes[j].Severity = "medium"
              ELSE IF i >= Len(desiredQ)
              THEN /\ Cardinality(ChangesUnder(At(i))) = 1
                   /\ \A j \in ChangesUnder(At(i)) :
                         /\ driftResult.Changes[j].Field = At(i)
                         /\ driftResult.Changes[j].Type = "ExtraElement"
                         /\ driftResult.Changes[j].Severity = "low"
              ELSE (ChangesUnder(At(i)) = {}) <=> (liveQ[i + 1] = desiredQ[i + 1])
        /\ \A i, k \in 0..(maxLen - 1) :
              i < k => \A j \in ChangesUnder(At(i)) :
                          \A m \in ChangesUnder(At(k)) : j < m
        /\ ChangesUnder(path) =
              ChangesAt(path) \cup UNION {ChangesUnder(At(i)) : i \in 0..(maxLen - 1)}
        /\ (Len(liveQ) = 0 /\ Len(desiredQ) = 1) =>
              Cardinality(ChangesUnder(path)) = 2

\* C28: for two sequences of different length the walk emits one
\* ArrayLength (medium) first; then, index by index up to the larger
\* length, it descends where both have the index, emits one MissingElement
\* (medium) where only the desired one has it and one ExtraElement (low)
\* where only the live one has it; length 0 against length 1 gives one
\* ArrayLength and one MissingElement.
C28_SequenceRule ==
    (driftResult.returned /\ liveState \in StructuredManifests
        /\ BothHaveSpecSequence)
        => SequenceRule("spec", liveState.map["spec"].elems,
                        desiredState.map["spec"].elems)

\* DetectDrift has returned for an empty live sequence against a desired
\* sequence of one element.
C28_Witness ==
    /\ driftResult.returned
    /\ liveState = Map("spec" :> Slice(<<>>))
    /\ desiredState = Map("spec" :> Slice(<<Int64(2)>>))
    /\ Len(driftResult.Changes) = 2
    /\ driftResult.Changes[1].Type = "ArrayLength"
    /\ driftResult.Changes[2].Type = "MissingElement"

\* the keys of ReplicaKeys whose lowercased text contains replicas
ReplicaNamed == {"replicas", "Replicas", "minReplicas"}

\* the absolute difference of two whole numbers
Distance(a, b) == IF a < b THEN b - a ELSE a - b

TypeRules ==
    << <<"replicas", "Scaling">>, <<"image", "VersionChange">>,
       <<"resources", "ResourceChange">>, <<"env", "ConfigurationChange">>,
       <<"labels", "LabelChange">>, <<"annotations", "AnnotationChange">>,
       <<"ports", "PortChange">>, <<"volume", "VolumeChange">>,
       <<"secret", "SecretChange">>, <<"configmap", "ConfigMapChange">> >>

\* the type of the first rule whose word the lowercased path contains
FirstMatch(path) ==
    LET hits == {i \in 1..Len(TypeRules) : Contains(ToLower(path), TypeRules[i][1])}
    IN  IF hits = {} THEN "GenericChange"
        ELSE TypeRules[CHOOSE i \in hits : \A j \in hits : i <= j][2]

\* the type of the one change returned
TypeReturned == driftResult.Changes[1].Type

\* C30: the type of a scalar change is that of the first word, in the
\* order replicas, image, resources, env, labels, annotations, ports,
\* volume, secret, configmap, that the lowercased path contains, and
\* GenericChange when it contains none; the values do not matter.
C30_TypeByPath ==
    driftResult.returned =>
        /\ \A a, b \in PathWords :
              (/\ liveState = Map(a :> Map(b :> String("live")))
               /\ desiredState = Map(a :> Map(b :> String("git"))))
                 => /\ Len(driftResult.Changes) = 1
                    /\ driftResult.Changes[1].Field = a \o "." \o b
                    /\ TypeReturned = FirstMatch(a \o "." \o b)
        /\ \A k \in ReplicaKeys : \A l, d \in Numbers :
              (/\ liveState = SpecWith(k, l)
               /\ desiredState = SpecWith(k, d)
               /\ l.type = d.type
               /\ l # d)
                 => TypeReturned = FirstMatch("spec." \o k)
        /\ liveState = Map("env" :> Map("image" :> String("live")))
              => TypeReturned = "VersionChange"
        /\ liveState = Map("Image" :> Map("name" :> String("live")))
              => TypeReturned = "VersionChange"
        /\ liveState = Map("volumeMounts" :> Map("secret" :> String("live")))
              => TypeReturned = "VolumeChange"
        /\ liveState = Map("configMapRef" :> Map("name" :> String("live")))
              => TypeReturned = "ConfigMapChange"
        /\ liveState = Map("ports" :> Map("env" :> String("live")))
              => TypeReturned = "ConfigurationChange"
        /\ liveState = Map("secret" :> Map("configmap" :> String("live")))
              => TypeReturned = "SecretChange"
        /\ liveState = Map("name" :> Map("limits" :> String("live")))
              => TypeReturned = "GenericChange"

\* DetectDrift has returned the change of a string at a path whose
\* lowercased text contains both image and secret.
C30_Witness ==
    /\ driftResult.returned
    /\ Len(driftResult.Changes) = 1
    /\ driftResult.Changes[1].Field = "name.imagePullSecrets"
    /\ driftResult.Changes[1].Type = "VersionChange"


\* Thread t's evaluation has logged the transition event e.
Logged(t, e) == \E i \in 1..Len(logged[t]) : logged[t][i] = e

LookupInProgress == \E t \in Runners : pc[t] = "lookup"

\* A thread runs git pull in the working tree in this step.
PullRuns == \E t \in Runners : pc[t] # "pulled" /\ pc'[t] = "pulled"

\* Stop's Cleanup removes the working tree in this step.
CleanupRuns == repo # "removed" /\ repo' = "removed"

\* C32 (as claimed): no Pull and no Cleanup runs while a lookup of the
\* desired manifest, of any pass, is walking the working tree.
C32_GitAccessSerialised ==
    [][LookupInProgress => ~(PullRuns \/ CleanupRuns)]_vars


\* The last call of Start has returned because a component failed to start.
StartFailed ==
    /\ lmOp = "none"
    /\ lmDone = [op |-> "start", err |-> TRUE]
    /\ lmCalls # <<>>

\* The component calls the failed Start made: c was started and that did not
\* fail (the failing call is the last start); c was stopped.
StartedBy(c) ==
    \E k \in 1..Len(lmCalls) :
        /\ lmCalls[k] = <<"start", c>>
        /\ \E j \in (k + 1)..Len(lmCalls) : lmCalls[j][1] = "start"
StoppedBy(c) == \E k \in 1..Len(lmCalls) : lmCalls[k] = <<"stop", c>>

\* C33 (as claimed): when a component fails to start, Start stops every
\* component it had started and none it had not, leaves the status error
\* and returns an error.
C33_FailedStartRollsBack ==
    StartFailed =>
        /\ lmStatus = "error"
        /\ \A c \in ComponentSet :
              /\ StartedBy(c) => (StoppedBy(c) /\ ~compUp[c])
              /\ StoppedBy(c) => StartedBy(c)


\* The lookup of the desired manifest by thread t's evaluation failed: Git
\* declares the resource and the evaluation got no manifest.
LookupFailed(t) ==
    /\ pc[t] \in {"save", "update"}
    /\ GitTree[Target(t)] # NoManifest
    /\ rec[t].DesiredState = NoManifest

\* C34 (as claimed): an evaluation whose lookup of the desired manifest
\* failed leaves the drift state of the stored record as it is: status,
\* first_detected, resolved_at and resolution message.
C34_LookupFailureKeepsState ==
    [][\A t \in Runners :
         (Writes(t) /\ LookupFailed(t) /\ store[Target(t)] # NoRecord)
         => LET old == store[Target(t)]
                new == store'[Target(t)]
            IN  /\ new.drift_status = old.drift_status
                /\ new.first_detected = old.first_detected
                /\ new.resolved_at = old.resolved_at
                /\ new.resolution_message = old.resolution_message]_vars


\* The timestamps of a stored record fit its status.
TimestampsFit(doc) ==
    /\ doc.drift_status = "active" => doc.first_detected # Null
    /\ doc.drift_status = "resolved"
           => /\ doc.first_detected # Null
              /\ doc.resolved_at # Null
              /\ doc.first_detected <= doc.resolved_at

\* C35: an active record has a first_detected; a resolved record has a
\* first_detected and a resolved_at, the first not later than the second;
\* and no step takes a stored first_detected or resolved_at back to null.
C35_TimestampsFitStatus ==
    /\ [](\A r \in RecordIDs : TimestampsFit(store[r]))
    /\ [][\A r \in RecordIDs :
            /\ store[r].first_detected # Null => store'[r].first_detected # Null
            /\ store[r].resolved_at # Null => store'[r].resolved_at # Null]_vars


\* SaveDriftRecord of thread t reads the prior record and derives the
\* transition in this step.
Derives(t) == pc[t] = "save" /\ pc'[t] = "update"

\* C36 (as claimed): the drift_status, first_detected and resolved_at that
\* SaveDriftRecord derives after its own read of the prior record, and then
\* upserts, are those handleDriftStateTransition decided for the evaluation,
\* whatever the two reads returned.
C36_DerivationsAgree ==
    [][\A t \in Runners :
         Derives(t)
         => /\ rec'[t].DriftStatus = rec[t].DriftStatus
            /\ rec'[t].FirstDetected = rec[t].FirstDetected
            /\ rec'[t].ResolvedAt = rec[t].ResolvedAt]_vars


\* No call of Start or Stop is under way.
CallsReturned == \A c \in Callers : pc[c] = "idle"

\* C37 (as claimed): with Start and Stop called one after the other, no
\* Stop closes the stop channel a second time, and whenever a Start has
\* returned with isRunning set the stop channel is open, so that the loop
\* goroutine it spawned stays in its select and takes the ticks.
C37_StopThenStartAgain ==
    /\ ~panicked
    /\ (isRunning /\ CallsReturned) => stopCh = "open"


\* A Start whose components all started and the Stop called during it have
\* both returned.
BothReturned ==
    /\ lmOp = "none"
    /\ lmDone = [op |-> "start", err |-> FALSE]
    /\ stopCall = "returned"

\* C38 (as claimed): when Stop has been called while Start was starting
\* components, no component failed to start and both calls have returned,
\* the status is stopped and no component is started.
C38_StopDuringStart ==
    BothReturned =>
        /\ lmStatus = "stopped"
        /\ \A c \in ComponentSet : ~compUp[c]


\* C39: a replica count that Git gives as 0 (the value passed as from) and
\* the cluster as another whole number is compared without a fault:
\* DetectDrift returns the one change, from 0 to that number, rated high.
C39_ZeroBaseIsHigh ==
    driftResult.returned =>
    \A k \in ReplicaNamed : \A n \in 1..MaxReplicas :
        (/\ desiredState = SpecWith(k, Int64(0))
         /\ liveState = SpecWith(k, Int64(n)))
            => /\ Len(driftResult.Changes) = 1
               /\ driftResult.Changes[1].From = Int64(0)
               /\ driftResult.Changes[1].To = Int64(n)
               /\ driftResult.Changes[1].Severity = "high"

\* DetectDrift has returned the change of spec.replicas from 0 to 3.
C39_Witness ==
    /\ driftResult.returned
    /\ desiredState = SpecWith("replicas", Int64(0))
    /\ liveState = SpecWith("replicas", Int64(3))
    /\ Len(driftResult.Changes) = 1
    /\ driftResult.Changes[1].Severity = "high"

==========================================================================
